---- MODULE Spec2Model ----
(***************************************************************************)
(* Model of the launch feed of vedantt77/launch14: the rotation and        *)
(* interleaving of src/pages/LaunchPage.tsx, its pagination and rotation   *)
(* timers, the upvote toggle of src/components/launch/LaunchListItem.tsx   *)
(* and the update rule of the startups collection in firestore.rules.      *)
(***************************************************************************)
EXTENDS Integers, Sequences, FiniteSets, TLC

VARIABLES
    \* ---- the interleaver applied to drawn inputs -------------------------
    inRegular,        \* argument of insertBoostedLaunches (regularLaunches)
    inBoosted,        \* boostedLaunches closed over by insertBoostedLaunches
    rotationIndex,    \* LaunchPage state rotationIndex
    outList,          \* result of insertBoostedLaunches
    outRotated,       \* result of getRotatedLaunches(inRegular)
    outBack,          \* result of rotating outRotated by N - rotationIndex
    fnPc,             \* which of the results have been computed
    \* ---- LaunchPage ------------------------------------------------------
    now,              \* Date.now(), in milliseconds
    pagePc,           \* "loading" (fetch in flight), "ready" or "unmounted"
    fetched,          \* what getLaunches() resolves to for this page
    allLaunches,      \* LaunchPage state allLaunches
    displayedLaunches,\* LaunchPage state displayedLaunches
    isLoading,        \* LaunchPage state isLoading
    hasMore,          \* LaunchPage state hasMore
    currentPage,      \* LaunchPage state currentPage
    initialTimeout,   \* due time of the pending initialTimeout, or NoTimer
    rotationTimer,    \* next due time of the pending interval, or NoTimer
    effectN,          \* regularLaunches.length the rotation effect closed over
    lastEvent,        \* the handler (and its branch) that ran last
    \* ---- a startups document, its update rule and the upvote button -------
    doc,              \* the stored document of one listing
    launchProp,       \* the launch prop the list items of the clients got
    itemState,        \* per client: LaunchListItem state (isUpvoting, upvotes, hasUpvoted)
    flow,             \* per client: where its handleUpvote call stands
    route,            \* per client: the route its router shows
    toast,            \* per client: the last toast its handleUpvote has shown
    lastUpdate,       \* the last accepted update of a user who is neither admin
                      \* nor owner (forgotten when one of those rewrites the document)
    onlyVoters,       \* no accepted update came from an admin or the owner
    orig,             \* the document before the first toggle
    overlapped,       \* two toggles have been in flight at the same time
    streak,           \* the current run of toggles of one user, nobody else writing
    \* ---- the store and the read-through caches ----------------------------
    store,            \* version of the startups the store holds (0: none approved)
    build,            \* which of the two getLaunches of launches.ts is bundled
    reader,           \* the cached read the callers make: getLaunches or useSubmissions
    cache,            \* launches.ts: cache.launches and cache.upvotes
    submissionsCache, \* useSubmissions: submissionsCache, by cache key
    call,             \* per caller: its getLaunches or fetchSubmissions call
    invalidated,      \* the version the store had when the caches were last cleared
    \* ---- the leaderboard --------------------------------------------------
    startups,         \* the approved documents of the startups collection
    lastWeekLaunches, \* lastWeekWinners: the filtered candidates
    lastWeekWinners,  \* LaunchPage memo lastWeekWinners
    \* ---- the admin dashboard ----------------------------------------------
    submission,       \* one document of the startups collection under review
    dash,             \* per open dashboard: AdminDashboard state and its pending write
    \* ---- the life of a submission under the rules ------------------------
    stored,           \* the startups document of one id, or NoDoc
    createdAs,        \* that document as its create request wrote it, or NoDoc
    usersOnly,        \* no accepted request on this id came from an admin
    \* ---- the sentinel of the infinite scroll -----------------------------
    observer          \* the IntersectionObserver of the last effect run and the
                      \* render its callback closes over, or NoObserver

fnVars == <<inRegular, inBoosted, outList, outRotated, outBack, fnPc>>

pageVars == <<now, pagePc, fetched, allLaunches, displayedLaunches, isLoading,
              hasMore, currentPage, initialTimeout, rotationTimer, effectN,
              lastEvent>>

voteVars == <<doc, launchProp, itemState, flow, route, toast, lastUpdate,
              onlyVoters, orig, overlapped, streak>>

cacheVars == <<store, build, reader, cache, submissionsCache, call, invalidated>>

boardVars == <<startups, lastWeekLaunches, lastWeekWinners>>

adminVars == <<submission, dash>>

lifeVars == <<stored, createdAs, usersOnly>>

scrollVars == <<observer>>

vars == <<inRegular, inBoosted, rotationIndex, outList, outRotated, outBack, fnPc,
          now, pagePc, fetched, allLaunches, displayedLaunches, isLoading,
          hasMore, currentPage, initialTimeout, rotationTimer, effectN,
          lastEvent, doc, launchProp, itemState, flow, route, toast, lastUpdate, onlyVoters,
          orig, overlapped, streak, store, build, reader, cache, submissionsCache,
          call, invalidated, startups, lastWeekLaunches, lastWeekWinners, submission, dash,
          stored, createdAs, usersOnly, observer>>

-----------------------------------------------------------------------------
(* Bounds of the model *)
MaxRegular == 6
MaxBoosted == 5
MaxRotation == 6

-----------------------------------------------------------------------------
(* Small helpers *)
Min(a, b) == IF a < b THEN a ELSE b
Max(a, b) == IF a > b THEN a ELSE b

\* Array.prototype.slice(start, end) for 0 <= start, 0 <= end (0-based,
\* end exclusive, both clamped to the length).
Slice(s, start, end) == SubSeq(s, Min(start, Len(s)) + 1, Min(end, Len(s)))

\* Array.prototype.splice(insertIndex, 0, item): the index is clamped to the
\* length, the items from insertIndex on move one place to the right.
Splice(s, insertIndex, item) ==
    LET at == Min(insertIndex, Len(s))
    IN  SubSeq(s, 1, at) \o <<item>> \o SubSeq(s, at + 1, Len(s))

\* Math.floor((a / b) * c) for non-negative a, c and positive b.  The double
\* arithmetic of the source agrees with the exact quotient on the lists of
\* this model (a <= 13, b <= 8, c <= 8); it first differs for longer boosted
\* lists, e.g. (1 / 49) * 49 < 1.
FloorDivMul(a, b, c) == (a * c) \div b

\* A Launch as far as the feed logic reads it.
Launch(id, type, date) == [id |-> id, listingType |-> type, launchDate |-> date]

\* { ...launch, uniqueKey }
ListItem(launch, key) ==
    [id |-> launch.id, listingType |-> launch.listingType,
     launchDate |-> launch.launchDate, uniqueKey |-> key]

Ids(s) == [k \in 1..Len(s) |-> s[k].id]

-----------------------------------------------------------------------------
(* LaunchPage.tsx: getRotatedLaunches and insertBoostedLaunches *)

\* getRotatedLaunches with the moved prefix cut one item short
\* (launches.slice(0, rotationIndex - 1)).
getRotatedLaunches_ShortPrefix(launches, index) ==
    IF Len(launches) = 0
    THEN <<>>
    ELSE LET rotated == Slice(launches, index, Len(launches))
                        \o Slice(launches, 0, Max(index - 1, 0))
         IN  [k \in 1..Len(rotated) |->
                 ListItem(rotated[k], <<rotated[k].id, index, k - 1>>)]

getRotatedLaunches(launches, index) ==
    IF Len(launches) = 0
    THEN <<>>
    ELSE LET rotated == Slice(launches, index, Len(launches))
                        \o Slice(launches, 0, index)
         IN  [k \in 1..Len(rotated) |->
                 ListItem(rotated[k], <<rotated[k].id, index, k - 1>>)]

\* rotatedRegular.forEach((launch, index) => ...): index is 0-based, acc is
\* [result, boostedIndex].
RECURSIVE WalkRegular(_, _, _, _, _)
WalkRegular(rotatedRegular, rotatedBoosted, spacing, index, acc) ==
    IF index >= Len(rotatedRegular)
    THEN acc
    ELSE LET pushed == Append(acc.result, rotatedRegular[index + 1])
         IN  IF (index + 1) % spacing = 0
                /\ acc.boostedIndex < Len(rotatedBoosted)
             THEN WalkRegular(rotatedRegular, rotatedBoosted, spacing, index + 1,
                      [result |-> Append(pushed, rotatedBoosted[acc.boostedIndex + 1]),
                       boostedIndex |-> acc.boostedIndex + 1])
             ELSE WalkRegular(rotatedRegular, rotatedBoosted, spacing, index + 1,
                      [result |-> pushed, boostedIndex |-> acc.boostedIndex])

\* while (boostedIndex < rotatedBoosted.length) { splice ... }
RECURSIVE SpliceRemaining(_, _)
SpliceRemaining(rotatedBoosted, acc) ==
    IF acc.boostedIndex >= Len(rotatedBoosted)
    THEN acc.result
    ELSE LET insertIndex ==
                 FloorDivMul(Len(acc.result),
                             Len(rotatedBoosted) - acc.boostedIndex + 1,
                             acc.boostedIndex + 1)
         IN  SpliceRemaining(rotatedBoosted,
                 [result |-> Splice(acc.result, insertIndex,
                                    rotatedBoosted[acc.boostedIndex + 1]),
                  boostedIndex |-> acc.boostedIndex + 1])

insertBoostedLaunches(regularLaunches, boostedLaunches, index) ==
    IF Len(boostedLaunches) = 0 \/ Len(regularLaunches) = 0
    THEN getRotatedLaunches(regularLaunches, index)
    ELSE LET rotatedRegular == getRotatedLaunches(regularLaunches, index)
             rotatedBoosted == getRotatedLaunches(boostedLaunches, index)
             spacing == Max(Len(rotatedRegular) \div Len(rotatedBoosted), 2)
         IN  SpliceRemaining(rotatedBoosted,
                 WalkRegular(rotatedRegular, rotatedBoosted, spacing, 0,
                             [result |-> <<>>, boostedIndex |-> 0]))

-----------------------------------------------------------------------------
(* firestore.rules: the principals and a document of the startups collection *)

Users == {"u1", "u2"}
Owners == {"u0", "u1"}
Admins == {"adm"}
NoUser == "nobody"
Clients == Users \cup {NoUser}

\* Bound: the largest counter value an update request carries.
MaxVotes == 2

\* A startups document.  onSubmit creates it without upvotes and upvotedBy,
\* and handleApproveConfirm adds neither: voteFields says whether the two
\* fields exist (when they do not, upvotes and upvotedBy hold 0 and {}).
StartupDoc(userId, status, voteFields, upvotes, upvotedBy) ==
    [userId |-> userId, status |-> status, voteFields |-> voteFields,
     upvotes |-> IF voteFields THEN upvotes ELSE 0,
     upvotedBy |-> IF voteFields THEN upvotedBy ELSE {}]

\* The documents the application itself produces: an approved submission
\* nobody has voted on, or one whose counter matches its voters.
StoredDocs ==
    {StartupDoc(o, "approved", FALSE, 0, {}) : o \in Owners}
    \cup {StartupDoc(o, "approved", TRUE, Cardinality(v), v) :
              o \in Owners, v \in SUBSET Users}

\* The documents an update request can ask for.
RequestDocs ==
    {StartupDoc(o, st, vf, n, v) :
         o \in Owners, st \in {"approved", "pending"}, vf \in BOOLEAN,
         n \in -1..MaxVotes, v \in SUBSET Users}

\* data.upvotes || 0 and data.upvotedBy || []
readVotes(d) == [upvotes |-> d.upvotes, upvotedBy |-> d.upvotedBy]

VoteIdle ==
    /\ doc = StartupDoc("u0", "approved", FALSE, 0, {})
    /\ launchProp = readVotes(doc)
    /\ itemState = <<>>
    /\ flow = <<>>
    /\ route = <<>>
    /\ toast = <<>>
    /\ lastUpdate = [caller |-> NoUser]
    /\ onlyVoters = TRUE
    /\ orig = doc
    /\ overlapped = FALSE
    /\ streak = [user |-> NoUser]

-----------------------------------------------------------------------------
(* launches.ts and useSubmissions: the cache entries *)

CACHE_DURATION == 5 * 60 * 1000

\* cache.launches = null, cache.upvotes[id] and submissionsCache[key] undefined
NoEntry == [present |-> FALSE, data |-> <<>>, timestamp |-> 0]

\* { data, timestamp }
Entry(data, timestamp) == [present |-> TRUE, data |-> data, timestamp |-> timestamp]

\* isValid that never takes a cached entry for valid.
isValid_NeverValid(cached, t) == FALSE

\* cached && (now - cached.timestamp) < CACHE_DURATION
isValid(cached, t) == cached.present /\ (t - cached.timestamp) < CACHE_DURATION

\* `${userId}-${status || 'all'}`
cacheKey(userId, status) == <<userId, status>>

SubmissionKeys == {cacheKey("u1", st) : st \in {"all", "approved"}}

\* Both caches empty, no call made.
CacheIdle ==
    /\ store = 0
    /\ build = 1
    /\ reader = "none"
    /\ cache = [launches |-> NoEntry, upvotes |-> NoEntry]
    /\ submissionsCache = [k \in SubmissionKeys |-> NoEntry]
    /\ call = <<>>
    /\ invalidated = 0

\* No leaderboard computed.
BoardIdle ==
    /\ startups = <<>>
    /\ lastWeekLaunches = <<>>
    /\ lastWeekWinners = <<>>

-----------------------------------------------------------------------------
(* SubmitStartupPage: the document onSubmit adds *)

\* addDoc(startupRef, {..., status: 'pending', ...}): listingType,
\* doFollowBacklink and scheduledLaunchDate are not among the fields;
\* assigned holds the names of those that exist (the values of the others
\* are placeholders).
PendingSubmission ==
    [status |-> "pending", assigned |-> {}, listingType |-> "regular",
     doFollowBacklink |-> FALSE, scheduledLaunchDate |-> "none"]

\* No dashboard open.
AdminIdle ==
    /\ submission = PendingSubmission
    /\ dash = <<>>

\* No document under this id (a document has no field of this name).
NoDoc == [exists |-> FALSE]

\* Nothing has been submitted.
LifeIdle ==
    /\ stored = NoDoc
    /\ createdAs = NoDoc
    /\ usersOnly = TRUE

\* No IntersectionObserver has been created.
NoObserver == [connected |-> FALSE]

ScrollIdle == observer = NoObserver

-----------------------------------------------------------------------------
(* The interleaver and the rotation applied to drawn inputs *)

NoTimer == -1

\* The page variables of a specification that mounts no page.
PageIdle ==
    /\ now = 0
    /\ pagePc = "unmounted"
    /\ fetched = <<>>
    /\ allLaunches = <<>>
    /\ displayedLaunches = <<>>
    /\ isLoading = TRUE
    /\ hasMore = TRUE
    /\ currentPage = 1
    /\ initialTimeout = NoTimer
    /\ rotationTimer = NoTimer
    /\ effectN = 0
    /\ lastEvent = "none"

RegularSeq(n) == [k \in 1..n |-> Launch(k, "regular", 0)]
BoostedSeq(n) == [k \in 1..n |-> Launch(100 + k, "boosted", 0)]

FnInit ==
    /\ inRegular \in {RegularSeq(n) : n \in 0..MaxRegular}
    /\ inBoosted \in {BoostedSeq(n) : n \in 0..MaxBoosted}
    /\ rotationIndex \in 0..MaxRotation
    /\ outList = <<>>
    /\ outRotated = <<>>
    /\ outBack = <<>>
    /\ fnPc = "drawn"
    /\ PageIdle
    /\ VoteIdle
    /\ CacheIdle
    /\ BoardIdle
    /\ AdminIdle
    /\ LifeIdle
    /\ ScrollIdle

\* render: insertBoostedLaunches(displayedLaunches).map(...)
Interleave ==
    /\ fnPc = "drawn"
    /\ outList' = insertBoostedLaunches(inRegular, inBoosted, rotationIndex)
    /\ fnPc' = "interleaved"
    /\ UNCHANGED <<inRegular, inBoosted, rotationIndex, outRotated, outBack>>
    /\ UNCHANGED pageVars
    /\ UNCHANGED voteVars
    /\ UNCHANGED cacheVars
    /\ UNCHANGED boardVars
    /\ UNCHANGED adminVars
    /\ UNCHANGED lifeVars
    /\ UNCHANGED scrollVars

\* getRotatedLaunches(S) with rotationIndex = i
Rotate ==
    /\ fnPc = "drawn"
    /\ outRotated' = getRotatedLaunches(inRegular, rotationIndex)
    /\ fnPc' = "rotated"
    /\ UNCHANGED <<inRegular, inBoosted, rotationIndex, outList, outBack>>
    /\ UNCHANGED pageVars
    /\ UNCHANGED voteVars
    /\ UNCHANGED cacheVars
    /\ UNCHANGED boardVars
    /\ UNCHANGED adminVars
    /\ UNCHANGED lifeVars
    /\ UNCHANGED scrollVars

\* getRotatedLaunches of the rotated list with rotationIndex = N - i
RotateBack ==
    /\ fnPc = "rotated"
    /\ rotationIndex <= Len(inRegular)
    /\ outBack' = getRotatedLaunches(outRotated, Len(inRegular) - rotationIndex)
    /\ fnPc' = "back"
    /\ UNCHANGED <<inRegular, inBoosted, rotationIndex, outList, outRotated>>
    /\ UNCHANGED pageVars
    /\ UNCHANGED voteVars
    /\ UNCHANGED cacheVars
    /\ UNCHANGED boardVars
    /\ UNCHANGED adminVars
    /\ UNCHANGED lifeVars
    /\ UNCHANGED scrollVars

FnNext == Interleave \/ Rotate \/ RotateBack

SpecFn == FnInit /\ [][FnNext]_vars

-----------------------------------------------------------------------------
(* LaunchPage.tsx: the page, its pagination and its rotation timers *)

ROTATION_INTERVAL == 10 * 60 * 1000
BATCH_SIZE == 10

\* Bounds: the longest fetched list and the number of rotation windows the
\* clock runs through.
MaxLaunches == 21
MaxWindows == 3

\* The clock is observed at the start of a window, one millisecond into it,
\* in its middle and one millisecond before its end.
Offsets == {0, 1, ROTATION_INTERVAL \div 2, ROTATION_INTERVAL - 1}
TimePoints == {k * ROTATION_INTERVAL + o : k \in 0..MaxWindows, o \in Offsets}

\* The fetched lists: item k of a list has the tier and the launch date of
\* entry ((k - 1) mod 3) + 1 of one of these patterns.
TierPatterns ==
    { << <<"regular", 0>>, <<"regular", 0>>, <<"regular", 0>> >>,
      << <<"regular", 0>>, <<"boosted", 0>>, <<"premium", 0>> >>,
      << <<"boosted", ROTATION_INTERVAL>>, <<"regular", ROTATION_INTERVAL>>,
         <<"regular", 0>> >>,
      << <<"premium", 0>>, <<"boosted", 0>>, <<"boosted", 0>> >> }

FetchedList(pattern, n) ==
    [k \in 1..n |-> Launch(k, pattern[((k - 1) % 3) + 1][1],
                              pattern[((k - 1) % 3) + 1][2])]

\* fetchLaunches whose filter keeps every fetched launch.
availableLaunches_KeepsAll(launches, t) == launches

\* launches.filter(...) of fetchLaunches
availableLaunches(launches, t) ==
    LET Keep(launch) == \/ launch.launchDate <= t
                        \/ launch.listingType = "premium"
                        \/ launch.listingType = "boosted"
    IN  SelectSeq(launches, Keep)

\* useMemo filters of allLaunches
premiumLaunches(all) ==
    LET Keep(launch) == launch.listingType = "premium" IN SelectSeq(all, Keep)

boostedLaunches(all) ==
    LET Keep(launch) == launch.listingType = "boosted" IN SelectSeq(all, Keep)

regularLaunches(all) ==
    LET Keep(launch) == launch.listingType = "regular" IN SelectSeq(all, Keep)

\* Math.floor(now / ROTATION_INTERVAL) % Math.max(regularLaunches.length, 1)
initialRotationIndex(t, n) == (t \div ROTATION_INTERVAL) % Max(n, 1)

\* Math.ceil(now / ROTATION_INTERVAL) * ROTATION_INTERVAL
nextRotation(t) ==
    ((t + ROTATION_INTERVAL - 1) \div ROTATION_INTERVAL) * ROTATION_INTERVAL

\* prevIndex => (prevIndex + 1) % Math.max(regularLaunches.length, 1)
advanceRotation(prevIndex, n) == (prevIndex + 1) % Max(n, 1)

\* loadMoreLaunches with the batch taken from nextPage * BATCH_SIZE, one
\* batch too far.
loadMoreLaunches_SkipsBatch(all, displayed, page, more, loading) ==
    IF ~more \/ loading
    THEN [displayedLaunches |-> displayed, currentPage |-> page,
          hasMore |-> more, branch |-> "return"]
    ELSE LET nextPage == page + 1
             start == nextPage * BATCH_SIZE
             end == start + BATCH_SIZE
             nextBatch == Slice(all, start, end)
         IN  IF Len(nextBatch) > 0
             THEN [displayedLaunches |-> displayed \o nextBatch,
                   currentPage |-> nextPage,
                   hasMore |-> end < Len(all), branch |-> "batch"]
             ELSE [displayedLaunches |-> displayed, currentPage |-> page,
                   hasMore |-> FALSE, branch |-> "empty"]

\* loadMoreLaunches as a function of the state it closes over; branch names
\* the path taken.
loadMoreLaunches(all, displayed, page, more, loading) ==
    IF ~more \/ loading
    THEN [displayedLaunches |-> displayed, currentPage |-> page,
          hasMore |-> more, branch |-> "return"]
    ELSE LET nextPage == page + 1
             start == (nextPage - 1) * BATCH_SIZE
             end == start + BATCH_SIZE
             nextBatch == Slice(all, start, end)
         IN  IF Len(nextBatch) > 0
             THEN [displayedLaunches |-> displayed \o nextBatch,
                   currentPage |-> nextPage,
                   hasMore |-> end < Len(all), branch |-> "batch"]
             ELSE [displayedLaunches |-> displayed, currentPage |-> page,
                   hasMore |-> FALSE, branch |-> "empty"]

\* render: the premium section and the list below it.
premiumSection == premiumLaunches(allLaunches)

renderedList ==
    insertBoostedLaunches(displayedLaunches, boostedLaunches(allLaunches),
                          rotationIndex)

\* The page is mounted at some instant of the first window with the fetch in
\* flight; the rotation effect has run once, with no regular listing yet.
PageInit ==
    /\ now \in {o : o \in Offsets}
    /\ pagePc = "loading"
    /\ fetched \in {FetchedList(p, n) : p \in TierPatterns, n \in 0..MaxLaunches}
    /\ allLaunches = <<>>
    /\ displayedLaunches = <<>>
    /\ isLoading = TRUE
    /\ hasMore = TRUE
    /\ currentPage = 1
    /\ rotationIndex = initialRotationIndex(now, 0)
    /\ initialTimeout = nextRotation(now)
    /\ rotationTimer = NoTimer
    /\ effectN = 0
    /\ lastEvent = "mount"
    /\ inRegular = <<>>
    /\ inBoosted = <<>>
    /\ outList = <<>>
    /\ outRotated = <<>>
    /\ outBack = <<>>
    /\ fnPc = "idle"
    /\ VoteIdle
    /\ CacheIdle
    /\ BoardIdle
    /\ AdminIdle
    /\ LifeIdle
    /\ ScrollIdle

\* fetchLaunches with a rotation effect that has no cleanup: the interval
\* of the earlier run of the effect stays pending.
FetchDone_NoCleanup ==
    /\ pagePc = "loading"
    /\ LET available == availableLaunches(fetched, now)
           n == Len(regularLaunches(available))
       IN  /\ allLaunches' = available
           /\ displayedLaunches' = Slice(available, 0, BATCH_SIZE)
           /\ hasMore' = (Len(available) > BATCH_SIZE)
           /\ isLoading' = FALSE
           /\ IF n # effectN
              THEN /\ rotationIndex' = initialRotationIndex(now, n)
                   /\ initialTimeout' = nextRotation(now)
                   /\ rotationTimer' = rotationTimer
                   /\ effectN' = n
              ELSE UNCHANGED <<rotationIndex, initialTimeout, rotationTimer, effectN>>
    /\ pagePc' = "ready"
    /\ lastEvent' = "fetch"
    /\ UNCHANGED <<now, fetched, currentPage>>
    /\ UNCHANGED fnVars
    /\ UNCHANGED voteVars
    /\ UNCHANGED cacheVars
    /\ UNCHANGED boardVars
    /\ UNCHANGED adminVars
    /\ UNCHANGED lifeVars
    /\ UNCHANGED scrollVars

\* fetchLaunches after getLaunches() has resolved, and the render that
\* follows: the rotation effect runs again when regularLaunches.length has
\* changed (its cleanup clears both timers first).
FetchDone ==
    /\ pagePc = "loading"
    /\ LET available == availableLaunches(fetched, now)
           n == Len(regularLaunches(available))
       IN  /\ allLaunches' = available
           /\ displayedLaunches' = Slice(available, 0, BATCH_SIZE)
           /\ hasMore' = (Len(available) > BATCH_SIZE)
           /\ isLoading' = FALSE
           /\ IF n # effectN
              THEN /\ rotationIndex' = initialRotationIndex(now, n)
                   /\ initialTimeout' = nextRotation(now)
                   /\ rotationTimer' = NoTimer
                   /\ effectN' = n
              ELSE UNCHANGED <<rotationIndex, initialTimeout, rotationTimer, effectN>>
    /\ pagePc' = "ready"
    /\ lastEvent' = "fetch"
    /\ UNCHANGED <<now, fetched, currentPage>>
    /\ UNCHANGED fnVars
    /\ UNCHANGED voteVars
    /\ UNCHANGED cacheVars
    /\ UNCHANGED boardVars
    /\ UNCHANGED adminVars
    /\ UNCHANGED lifeVars
    /\ UNCHANGED scrollVars

\* A call of loadMoreLaunches (the sentinel's intersection callback), and
\* the render that follows.
LoadMore ==
    /\ pagePc # "unmounted"
    /\ LET r == loadMoreLaunches(allLaunches, displayedLaunches, currentPage,
                                 hasMore, isLoading)
       IN  /\ displayedLaunches' = r.displayedLaunches
           /\ currentPage' = r.currentPage
           /\ hasMore' = r.hasMore
           /\ lastEvent' = r.branch
    /\ UNCHANGED <<now, pagePc, fetched, allLaunches, isLoading, rotationIndex,
                   initialTimeout, rotationTimer, effectN>>
    /\ UNCHANGED fnVars
    /\ UNCHANGED voteVars
    /\ UNCHANGED cacheVars
    /\ UNCHANGED boardVars
    /\ UNCHANGED adminVars
    /\ UNCHANGED lifeVars
    /\ UNCHANGED scrollVars

\* The callback of initialTimeout, at the instant it is due.
InitialTimeoutFires ==
    /\ pagePc # "unmounted"
    /\ initialTimeout = now
    /\ rotationIndex' = advanceRotation(rotationIndex, effectN)
    /\ initialTimeout' = NoTimer
    /\ rotationTimer' = now + ROTATION_INTERVAL
    /\ lastEvent' = "timeout"
    /\ UNCHANGED <<now, pagePc, fetched, allLaunches, displayedLaunches,
                   isLoading, hasMore, currentPage, effectN>>
    /\ UNCHANGED fnVars
    /\ UNCHANGED voteVars
    /\ UNCHANGED cacheVars
    /\ UNCHANGED boardVars
    /\ UNCHANGED adminVars
    /\ UNCHANGED lifeVars
    /\ UNCHANGED scrollVars

\* The callback of the interval started by startRotation.
IntervalFires ==
    /\ pagePc # "unmounted"
    /\ rotationTimer = now
    /\ rotationIndex' = advanceRotation(rotationIndex, effectN)
    /\ rotationTimer' = now + ROTATION_INTERVAL
    /\ lastEvent' = "interval"
    /\ UNCHANGED <<now, pagePc, fetched, allLaunches, displayedLaunches,
                   isLoading, hasMore, currentPage, initialTimeout, effectN>>
    /\ UNCHANGED fnVars
    /\ UNCHANGED voteVars
    /\ UNCHANGED cacheVars
    /\ UNCHANGED boardVars
    /\ UNCHANGED adminVars
    /\ UNCHANGED lifeVars
    /\ UNCHANGED scrollVars

\* The clock advances; a due timer runs before the clock passes it.
Tick ==
    /\ pagePc # "unmounted"
    /\ \E t \in TimePoints :
           /\ t > now
           /\ initialTimeout # NoTimer => t <= initialTimeout
           /\ rotationTimer # NoTimer => t <= rotationTimer
           /\ now' = t
    /\ lastEvent' = "tick"
    /\ UNCHANGED <<pagePc, fetched, allLaunches, displayedLaunches, isLoading,
                   hasMore, currentPage, rotationIndex, initialTimeout,
                   rotationTimer, effectN>>
    /\ UNCHANGED fnVars
    /\ UNCHANGED voteVars
    /\ UNCHANGED cacheVars
    /\ UNCHANGED boardVars
    /\ UNCHANGED adminVars
    /\ UNCHANGED lifeVars
    /\ UNCHANGED scrollVars

\* The cleanup of the rotation effect on unmount.
Unmount ==
    /\ pagePc # "unmounted"
    /\ pagePc' = "unmounted"
    /\ initialTimeout' = NoTimer
    /\ rotationTimer' = NoTimer
    /\ lastEvent' = "unmount"
    /\ UNCHANGED <<now, fetched, allLaunches, displayedLaunches, isLoading,
                   hasMore, currentPage, rotationIndex, effectN>>
    /\ UNCHANGED fnVars
    /\ UNCHANGED voteVars
    /\ UNCHANGED cacheVars
    /\ UNCHANGED boardVars
    /\ UNCHANGED adminVars
    /\ UNCHANGED lifeVars
    /\ UNCHANGED scrollVars

PageNext ==
    \/ FetchDone
    \/ LoadMore
    \/ InitialTimeoutFires
    \/ IntervalFires
    \/ Tick
    \/ Unmount

SpecPage == PageInit /\ [][PageNext]_vars

-----------------------------------------------------------------------------
(* firestore.rules: allow update of /startups/{startupId} *)

\* exists(/databases/$(database)/documents/admins/$(request.auth.uid))
isAdmin(auth) == auth \in Admins

isOwner(auth, userId) == auth # NoUser /\ auth = userId

\* request.resource.data.diff(resource.data).affectedKeys()
affectedKeys(req, res) ==
    {k \in {"userId", "status"} : req[k] # res[k]}
    \cup (IF req.voteFields # res.voteFields
          THEN {"upvotes", "upvotedBy"}
          ELSE {k \in {"upvotes", "upvotedBy"} : req[k] # res[k]})

\* // Adding upvote
addingUpvote(auth, res, req) ==
    /\ auth \notin res.upvotedBy
    /\ res.upvotedBy \subseteq req.upvotedBy
    /\ auth \in req.upvotedBy
    /\ req.upvotes = res.upvotes + 1

\* // Removing upvote
removingUpvote(auth, res, req) ==
    /\ auth \in res.upvotedBy
    /\ (res.upvotedBy \ {auth}) \subseteq req.upvotedBy
    /\ req.upvotes = res.upvotes - 1

\* The clause for other authenticated users.  Reading resource.data.upvotedBy
\* (or request.resource.data.upvotes) of a document without the field is an
\* evaluation error; with the admin and the owner clauses false an error
\* denies the request, as a false clause does.
otherUserUpdate(auth, res, req) ==
    /\ affectedKeys(req, res) \subseteq {"upvotes", "upvotedBy"}
    /\ res.voteFields
    /\ req.voteFields
    /\ \/ addingUpvote(auth, res, req)
       \/ removingUpvote(auth, res, req)

allowUpdate(auth, res, req) ==
    /\ auth # NoUser
    /\ \/ isAdmin(auth)
       \/ isOwner(auth, res.userId)
       \/ otherUserUpdate(auth, res, req)

\* Any principal asks for any update of the document; the rules decide.
RulesInit ==
    /\ doc \in StoredDocs
    /\ launchProp = readVotes(doc)
    /\ itemState = <<>>
    /\ flow = <<>>
    /\ route = <<>>
    /\ toast = <<>>
    /\ lastUpdate = [caller |-> NoUser]
    /\ onlyVoters = TRUE
    /\ orig = doc
    /\ overlapped = FALSE
    /\ streak = [user |-> NoUser]
    /\ PageIdle
    /\ rotationIndex = 0
    /\ inRegular = <<>>
    /\ inBoosted = <<>>
    /\ outList = <<>>
    /\ outRotated = <<>>
    /\ outBack = <<>>
    /\ fnPc = "idle"
    /\ CacheIdle
    /\ BoardIdle
    /\ AdminIdle
    /\ LifeIdle
    /\ ScrollIdle

UpdateRequest ==
    /\ \E caller \in Users \cup Admins \cup {NoUser}, req \in RequestDocs :
           IF allowUpdate(caller, doc, req)
           THEN /\ doc' = req
                /\ lastUpdate' =
                       IF isAdmin(caller) \/ isOwner(caller, doc.userId)
                       THEN [caller |-> NoUser]
                       ELSE [caller |-> caller, before |-> doc]
                /\ onlyVoters' = (/\ onlyVoters
                                  /\ ~isAdmin(caller)
                                  /\ ~isOwner(caller, doc.userId))
           ELSE UNCHANGED <<doc, lastUpdate, onlyVoters>>
    /\ UNCHANGED <<launchProp, itemState, flow, route, toast, orig, overlapped, streak>>
    /\ UNCHANGED fnVars
    /\ UNCHANGED pageVars
    /\ UNCHANGED rotationIndex
    /\ UNCHANGED cacheVars
    /\ UNCHANGED boardVars
    /\ UNCHANGED adminVars
    /\ UNCHANGED lifeVars
    /\ UNCHANGED scrollVars

RulesNext == UpdateRequest

SpecRules == RulesInit /\ [][RulesNext]_vars

-----------------------------------------------------------------------------
(* LaunchListItem.tsx: the upvote button, and toggleUpvote *)

\* useState(launch.upvotes || 0), useState(launch.upvotedBy?.includes(uid))
initialItem(prop, user) ==
    [isUpvoting |-> FALSE,
     upvotes |-> prop.upvotes,
     hasUpvoted |-> user \in prop.upvotedBy]

\* What getLaunches hands to the list item: the votes of the document, or
\* the defaults batchGetUpvotes fills in for an id it did not find.
LaunchProps(d) == {readVotes(d), [upvotes |-> 0, upvotedBy |-> {}]}

\* toggleUpvote(launch.id, user.uid): one atomic conditional update of the
\* document (section 4.6 of the specification): a member is removed and the
\* counter decremented, anyone else is added and the counter incremented.
toggleUpvote(d, uid) ==
    IF uid \in d.upvotedBy
    THEN [d EXCEPT !.upvotes = @ - 1, !.upvotedBy = @ \ {uid}]
    ELSE [d EXCEPT !.voteFields = TRUE, !.upvotes = @ + 1,
                   !.upvotedBy = @ \cup {uid}]

\* handleUpvote whose continuation counts every settled toggle as a vote
\* (no branch on hasUpvoted).
handleUpvoteSettled_AlwaysVotes(st, resolved) ==
    IF resolved
    THEN [isUpvoting |-> FALSE, upvotes |-> st.upvotes + 1, hasUpvoted |-> TRUE]
    ELSE [st EXCEPT !.isUpvoting = FALSE]

\* handleUpvote whose state changes stand before the await: they stay when
\* the toggle fails.
handleUpvoteSettled_Optimistic(st, resolved) ==
    IF st.hasUpvoted
    THEN [isUpvoting |-> FALSE, upvotes |-> st.upvotes - 1, hasUpvoted |-> FALSE]
    ELSE [isUpvoting |-> FALSE, upvotes |-> st.upvotes + 1, hasUpvoted |-> TRUE]

\* handleUpvote after the awaited toggleUpvote has settled: the branch on the
\* hasUpvoted of the render the click came from, or the catch block, and the
\* finally block.
handleUpvoteSettled(st, resolved) ==
    IF resolved
    THEN IF st.hasUpvoted
         THEN [isUpvoting |-> FALSE, upvotes |-> st.upvotes - 1, hasUpvoted |-> FALSE]
         ELSE [isUpvoting |-> FALSE, upvotes |-> st.upvotes + 1, hasUpvoted |-> TRUE]
    ELSE [st EXCEPT !.isUpvoting = FALSE]

\* The votes of the document and the state of the item of user c, as a run
\* of toggles of c starts.
Snapshot(c) ==
    [user |-> c, count |-> 0,
     docUpvotes |-> doc.upvotes, docMember |-> c \in doc.upvotedBy,
     uiUpvotes |-> itemState[c].upvotes, uiHasUpvoted |-> itemState[c].hasUpvoted]

NoStreak == [user |-> NoUser]

UpvoteInit ==
    /\ doc \in StoredDocs
    /\ launchProp \in LaunchProps(doc)
    /\ itemState = [c \in Clients |-> initialItem(launchProp, c)]
    /\ flow = [c \in Clients |-> "idle"]
    /\ route = [c \in Clients |-> "/"]
    /\ toast = [c \in Clients |-> "none"]
    /\ lastUpdate = [caller |-> NoUser]
    /\ onlyVoters = TRUE
    /\ orig = doc
    /\ overlapped = FALSE
    /\ streak = NoStreak
    /\ PageIdle
    /\ rotationIndex = 0
    /\ inRegular = <<>>
    /\ inBoosted = <<>>
    /\ outList = <<>>
    /\ outRotated = <<>>
    /\ outBack = <<>>
    /\ fnPc = "idle"
    /\ CacheIdle
    /\ BoardIdle
    /\ AdminIdle
    /\ LifeIdle
    /\ ScrollIdle

\* handleUpvote up to the await without the if (!user) block: a caller who
\* is not signed in goes on to setIsUpvoting(true) and toggleUpvote.
Click_NoSignInTest(c) ==
    /\ IF itemState[c].isUpvoting
       THEN UNCHANGED <<itemState, flow, route, overlapped, streak>>
       ELSE /\ itemState' = [itemState EXCEPT ![c].isUpvoting = TRUE]
            /\ flow' = [flow EXCEPT ![c] = "awaiting"]
            /\ overlapped' = (overlapped \/ \E d \in Users \ {c} : flow[d] = "awaiting")
            /\ streak' = streak
            /\ UNCHANGED route
    /\ UNCHANGED <<doc, launchProp, toast, lastUpdate, onlyVoters, orig>>
    /\ UNCHANGED <<fnVars, pageVars, rotationIndex>>
    /\ UNCHANGED cacheVars
    /\ UNCHANGED boardVars
    /\ UNCHANGED adminVars
    /\ UNCHANGED lifeVars
    /\ UNCHANGED scrollVars

\* handleUpvote up to the await: the sign-in test, the isUpvoting guard,
\* setIsUpvoting(true) and the call of toggleUpvote.
Click(c) ==
    /\ IF c = NoUser
       THEN /\ toast' = [toast EXCEPT ![c] = "Authentication required"]
            /\ route' = [route EXCEPT ![c] = "/login"]
            /\ UNCHANGED <<itemState, flow, overlapped, streak>>
       ELSE IF itemState[c].isUpvoting
       THEN UNCHANGED <<itemState, flow, route, toast, overlapped, streak>>
       ELSE /\ itemState' = [itemState EXCEPT ![c].isUpvoting = TRUE]
            /\ flow' = [flow EXCEPT ![c] = "awaiting"]
            /\ overlapped' = (overlapped \/ \E d \in Users \ {c} : flow[d] = "awaiting")
            /\ streak' = IF streak.user = NoUser \/ streak.count = 2
                         THEN Snapshot(c)
                         ELSE streak
            /\ UNCHANGED <<route, toast>>
    /\ UNCHANGED <<doc, launchProp, lastUpdate, onlyVoters, orig>>
    /\ UNCHANGED <<fnVars, pageVars, rotationIndex>>
    /\ UNCHANGED cacheVars
    /\ UNCHANGED boardVars
    /\ UNCHANGED adminVars
    /\ UNCHANGED lifeVars
    /\ UNCHANGED scrollVars

\* The update of toggleUpvote reaches the store; the rules accept or deny it.
StoreUpdate(c) ==
    /\ flow[c] = "awaiting"
    /\ LET req == toggleUpvote(doc, c)
       IN  IF allowUpdate(c, doc, req)
           THEN /\ doc' = req
                /\ flow' = [flow EXCEPT ![c] = "resolved"]
                /\ streak' = IF streak.user = c THEN streak ELSE NoStreak
           ELSE /\ flow' = [flow EXCEPT ![c] = "denied"]
                /\ streak' = IF streak.user = c THEN NoStreak ELSE streak
                /\ UNCHANGED doc
    /\ UNCHANGED <<launchProp, itemState, route, toast, lastUpdate, onlyVoters,
                   orig, overlapped>>
    /\ UNCHANGED <<fnVars, pageVars, rotationIndex>>
    /\ UNCHANGED cacheVars
    /\ UNCHANGED boardVars
    /\ UNCHANGED adminVars
    /\ UNCHANGED lifeVars
    /\ UNCHANGED scrollVars

\* The update does not reach the store (the network fails).
StoreUnavailable(c) ==
    /\ flow[c] = "awaiting"
    /\ flow' = [flow EXCEPT ![c] = "failed"]
    /\ streak' = IF streak.user = c THEN NoStreak ELSE streak
    /\ UNCHANGED <<doc, launchProp, itemState, route, toast, lastUpdate,
                   onlyVoters, orig, overlapped>>
    /\ UNCHANGED <<fnVars, pageVars, rotationIndex>>
    /\ UNCHANGED cacheVars
    /\ UNCHANGED boardVars
    /\ UNCHANGED adminVars
    /\ UNCHANGED lifeVars
    /\ UNCHANGED scrollVars

\* The rest of handleUpvote, after the await.
Settle(c) ==
    /\ flow[c] \in {"resolved", "denied", "failed"}
    /\ itemState' = [itemState EXCEPT
                        ![c] = handleUpvoteSettled(@, flow[c] = "resolved")]
    /\ flow' = [flow EXCEPT ![c] = "idle"]
    /\ toast' = IF flow[c] = "resolved" THEN toast ELSE [toast EXCEPT ![c] = "Error"]
    /\ streak' = IF streak.user = c /\ flow[c] = "resolved"
                 THEN [streak EXCEPT !.count = @ + 1]
                 ELSE streak
    /\ UNCHANGED <<doc, launchProp, route, lastUpdate, onlyVoters, orig,
                   overlapped>>
    /\ UNCHANGED <<fnVars, pageVars, rotationIndex>>
    /\ UNCHANGED cacheVars
    /\ UNCHANGED boardVars
    /\ UNCHANGED adminVars
    /\ UNCHANGED lifeVars
    /\ UNCHANGED scrollVars

UpvoteNext ==
    \/ \E c \in Clients : Click(c)
    \/ \E c \in Users : StoreUpdate(c)
    \/ \E c \in Users : StoreUnavailable(c)
    \/ \E c \in Users : Settle(c)

SpecUpvote == UpvoteInit /\ [][UpvoteNext]_vars

-----------------------------------------------------------------------------
(* LaunchPage.tsx and LaunchListItem.tsx: the list items across a rotation *)

\* regularLaunches.length of the page the items are on: with two regular
\* listings the index moves at every window boundary.
RegularShown == 2

\* The items are mounted on the votes getLaunches has just read.
RemountInit ==
    /\ UpvoteInit
    /\ launchProp = readVotes(doc)

\* The rotation timer fires: setRotationIndex gives every item of the list a
\* new uniqueKey, so React unmounts the items and mounts new ones, whose
\* useState initialisers read the launch prop again. allLaunches is set by
\* the one fetch of the mount, so the prop is the one of the first mount.
\* The boundary is taken between two clicks, with no toggle in flight.
Remount ==
    /\ \A c \in Clients : flow[c] = "idle"
    /\ rotationIndex' = advanceRotation(rotationIndex, RegularShown)
    /\ rotationIndex' # rotationIndex
    /\ itemState' = [c \in Clients |-> initialItem(launchProp, c)]
    /\ UNCHANGED <<doc, launchProp, flow, route, toast, lastUpdate, onlyVoters,
                   orig, overlapped, streak>>
    /\ UNCHANGED <<fnVars, pageVars>>
    /\ UNCHANGED cacheVars
    /\ UNCHANGED boardVars
    /\ UNCHANGED adminVars
    /\ UNCHANGED lifeVars
    /\ UNCHANGED scrollVars

RemountNext ==
    \/ \E c \in Clients : Click(c)
    \/ \E c \in Users : StoreUpdate(c)
    \/ \E c \in Users : StoreUnavailable(c)
    \/ \E c \in Users : Settle(c)
    \/ Remount

SpecRemount == RemountInit /\ [][RemountNext]_vars

-----------------------------------------------------------------------------
(* launches.ts: getLaunches and batchGetUpvotes; useSubmissions *)

\* Bounds: the number of writes the store sees and the number of cache
\* durations the clock runs through.
MaxStoreVersion == 2
MaxDurations == 1

\* The components of one session that call the cached reads.
Callers == {"c1", "c2"}

\* The clock is read at the end of a cache duration and one millisecond
\* before it.
CacheTimes ==
    {k * CACHE_DURATION - o : k \in 1..MaxDurations, o \in {0, 1}} \cup {0}

\* The Launch[] built from the startups query (version d of the collection,
\* no approved startup when d = 0) and the upvote info u of the listing.
launchesOf(d, u) == IF d = 0 THEN <<>> ELSE << [startup |-> d, upvotes |-> u] >>

\* The SubmittedStartup[] built from the query of a user and a status.
submissionsOf(key, d) == IF d = 0 THEN <<>> ELSE << [key |-> key, startup |-> d] >>

\* A caller that has not called yet.
IdleCall ==
    [fn |-> "none", key |-> <<>>, pc |-> "idle", now |-> 0, cached |-> NoEntry,
     queries |-> 0, result |-> <<>>, error |-> FALSE, failed |-> FALSE,
     part |-> 0, upNow |-> 0, cleared |-> FALSE]

CacheInit ==
    /\ store \in 0..1
    /\ build \in {1, 2}
    /\ reader \in {"getLaunches", "useSubmissions"}
    /\ cache = [launches |-> NoEntry, upvotes |-> NoEntry]
    /\ submissionsCache = [k \in SubmissionKeys |-> NoEntry]
    /\ call = [c \in Callers |-> IdleCall]
    /\ invalidated = 0
    /\ BoardIdle
    /\ AdminIdle
    /\ PageIdle
    /\ VoteIdle
    /\ rotationIndex = 0
    /\ inRegular = <<>>
    /\ inBoosted = <<>>
    /\ outList = <<>>
    /\ outRotated = <<>>
    /\ outBack = <<>>
    /\ fnPc = "idle"
    /\ LifeIdle
    /\ ScrollIdle

\* No finished call is waiting to hand its result to its caller.
Returned == \A c \in Callers : call[c].pc # "done"

\* What a cache action leaves alone.
CacheFrame ==
    /\ UNCHANGED <<pagePc, fetched, allLaunches, displayedLaunches, isLoading,
                   hasMore, currentPage, initialTimeout, rotationTimer, effectN,
                   lastEvent>>
    /\ UNCHANGED <<fnVars, voteVars, rotationIndex, boardVars, adminVars>>
    /\ UNCHANGED lifeVars
    /\ UNCHANGED scrollVars

\* getLaunches up to its first await: the cached data, or the startups query.
GetLaunches(c) ==
    /\ Returned
    /\ reader = "getLaunches"
    /\ call[c].pc = "idle"
    /\ LET cached == cache.launches
           started == [IdleCall EXCEPT !.fn = "getLaunches", !.key = <<"launches">>,
                                       !.now = now, !.cached = cached]
       IN  call' = [call EXCEPT ![c] =
                       IF isValid(cached, now)
                       THEN [started EXCEPT !.pc = "done", !.result = cached.data]
                       ELSE [started EXCEPT !.pc = "startups", !.queries = 1]]
    /\ UNCHANGED <<now, store, build, reader, cache, submissionsCache>>
    /\ UNCHANGED invalidated
    /\ CacheFrame

\* The startups query resolves.  The second getLaunches builds and caches
\* the list; the first one calls batchGetUpvotes, which answers from
\* cache.upvotes or queries the launches collection.
StartupsResolve(c) ==
    /\ Returned
    /\ call[c].fn = "getLaunches"
    /\ call[c].pc = "startups"
    /\ LET d == store
           finish(data) ==
               /\ cache' = [cache EXCEPT !.launches = Entry(data, call[c].now)]
               /\ call' = [call EXCEPT ![c].pc = "done", ![c].result = data,
                                       ![c].part = d]
       IN  IF build = 2
           THEN finish(launchesOf(d, d))
           ELSE IF d = 0
           THEN finish(<<>>)
           ELSE IF isValid(cache.upvotes, now)
           THEN finish(launchesOf(d, cache.upvotes.data))
           ELSE /\ call' = [call EXCEPT ![c].pc = "upvotes", ![c].part = d,
                                        ![c].upNow = now, ![c].queries = @ + 1]
                /\ UNCHANGED cache
    /\ UNCHANGED <<now, store, build, reader, submissionsCache>>
    /\ UNCHANGED invalidated
    /\ CacheFrame

\* The query of batchGetUpvotes resolves; getLaunches builds and caches the
\* list.
UpvotesResolve(c) ==
    /\ Returned
    /\ call[c].fn = "getLaunches"
    /\ call[c].pc = "upvotes"
    /\ LET data == launchesOf(call[c].part, store)
       IN  /\ cache' = [launches |-> Entry(data, call[c].now),
                        upvotes |-> Entry(store, call[c].upNow)]
           /\ call' = [call EXCEPT ![c].pc = "done", ![c].result = data]
    /\ UNCHANGED <<now, store, build, reader, submissionsCache>>
    /\ UNCHANGED invalidated
    /\ CacheFrame

\* A query of getLaunches fails: the catch block.
GetLaunchesFails(c) ==
    /\ Returned
    /\ call[c].fn = "getLaunches"
    /\ call[c].pc \in {"startups", "upvotes"}
    /\ call' = [call EXCEPT ![c].pc = "done", ![c].failed = TRUE,
                            ![c].result = IF cache.launches.present
                                          THEN cache.launches.data
                                          ELSE <<>>]
    /\ UNCHANGED <<now, store, build, reader, cache, submissionsCache>>
    /\ UNCHANGED invalidated
    /\ CacheFrame

\* fetchSubmissions of useSubmissions up to its await.
FetchSubmissions(c, key) ==
    /\ Returned
    /\ reader = "useSubmissions"
    /\ call[c].pc = "idle"
    /\ LET cached == submissionsCache[key]
           started == [IdleCall EXCEPT !.fn = "fetchSubmissions", !.key = key,
                                       !.now = now, !.cached = cached]
       IN  call' = [call EXCEPT ![c] =
                       IF isValid(cached, now)
                       THEN [started EXCEPT !.pc = "done", !.result = cached.data]
                       ELSE [started EXCEPT !.pc = "query", !.queries = 1]]
    /\ UNCHANGED <<now, store, build, reader, cache, submissionsCache>>
    /\ UNCHANGED invalidated
    /\ CacheFrame

\* getDocs(q) of fetchSubmissions resolves.
SubmissionsResolve(c) ==
    /\ Returned
    /\ call[c].fn = "fetchSubmissions"
    /\ call[c].pc = "query"
    /\ LET data == submissionsOf(call[c].key, store)
       IN  /\ submissionsCache' =
                  [submissionsCache EXCEPT ![call[c].key] = Entry(data, call[c].now)]
           /\ call' = [call EXCEPT ![c].pc = "done", ![c].result = data,
                                   ![c].part = store]
    /\ UNCHANGED <<now, store, build, reader, cache>>
    /\ UNCHANGED invalidated
    /\ CacheFrame

\* getDocs(q) of fetchSubmissions fails: setError, and the data of the entry
\* read before the query if there was one.
SubmissionsFails(c) ==
    /\ Returned
    /\ call[c].fn = "fetchSubmissions"
    /\ call[c].pc = "query"
    /\ call' = [call EXCEPT ![c].pc = "done", ![c].failed = TRUE,
                            ![c].error = TRUE,
                            ![c].result = IF call[c].cached.present
                                          THEN call[c].cached.data
                                          ELSE <<>>]
    /\ UNCHANGED <<now, store, build, reader, cache, submissionsCache>>
    /\ UNCHANGED invalidated
    /\ CacheFrame

\* clearLaunchesCache()
ClearLaunchesCache ==
    /\ Returned
    /\ reader = "getLaunches"
    /\ cache' = [launches |-> NoEntry, upvotes |-> NoEntry]
    /\ call' = [c \in Callers |->
                   IF call[c].fn = "getLaunches" /\ call[c].pc # "done"
                   THEN [call[c] EXCEPT !.cleared = TRUE]
                   ELSE call[c]]
    /\ UNCHANGED <<now, store, build, reader, submissionsCache>>
    /\ invalidated' = store
    /\ CacheFrame

\* clearSubmissionsCache()
ClearSubmissionsCache ==
    /\ Returned
    /\ reader = "useSubmissions"
    /\ submissionsCache' = [k \in SubmissionKeys |-> NoEntry]
    /\ call' = [c \in Callers |->
                   IF call[c].fn = "fetchSubmissions" /\ call[c].pc # "done"
                   THEN [call[c] EXCEPT !.cleared = TRUE]
                   ELSE call[c]]
    /\ UNCHANGED <<now, store, build, reader, cache>>
    /\ invalidated' = store
    /\ CacheFrame

\* Somebody writes to the startups the queries read.
StoreWrite ==
    /\ Returned
    /\ store < MaxStoreVersion
    /\ store' = store + 1
    /\ UNCHANGED <<now, build, reader, cache, submissionsCache, call>>
    /\ UNCHANGED invalidated
    /\ CacheFrame

\* The finished call hands its result to its caller.
Return(c) ==
    /\ call[c].pc = "done"
    /\ call' = [call EXCEPT ![c] = IdleCall]
    /\ UNCHANGED <<now, store, build, reader, cache, submissionsCache>>
    /\ UNCHANGED invalidated
    /\ CacheFrame

\* The clock advances.
CacheTick ==
    /\ Returned
    /\ \E t \in CacheTimes : t > now /\ now' = t
    /\ UNCHANGED cacheVars
    /\ CacheFrame

CacheNext ==
    \/ \E c \in Callers : GetLaunches(c)
    \/ \E c \in Callers : StartupsResolve(c)
    \/ \E c \in Callers : UpvotesResolve(c)
    \/ \E c \in Callers : GetLaunchesFails(c)
    \/ \E c \in Callers, key \in SubmissionKeys : FetchSubmissions(c, key)
    \/ \E c \in Callers : SubmissionsResolve(c)
    \/ \E c \in Callers : SubmissionsFails(c)
    \/ ClearLaunchesCache
    \/ ClearSubmissionsCache
    \/ \E c \in Callers : Return(c)
    \/ StoreWrite
    \/ CacheTick

SpecCache == CacheInit /\ [][CacheNext]_vars

-----------------------------------------------------------------------------
(* launches.ts: getLaunches and batchGetUpvotes while the store keeps changing *)

\* Bound: the number of cache durations the clock runs through.
MaxStaleDurations == 1

\* The clock is read at the start of a cache duration and one millisecond
\* later.
StaleTimes == {k * CACHE_DURATION + o : k \in 0..MaxStaleDurations, o \in {0, 1}}

\* The store is written at every instant the clock is read at: its version
\* at instant t, and the instant it held version v from.
versionAt(t) == Cardinality({u \in StaleTimes : u <= t})
readAt(v) == CHOOSE t \in StaleTimes : versionAt(t) = v

StaleInit ==
    /\ now = 0
    /\ store = versionAt(0)
    /\ build \in {1, 2}
    /\ reader = "getLaunches"
    /\ cache = [launches |-> NoEntry, upvotes |-> NoEntry]
    /\ submissionsCache = [k \in SubmissionKeys |-> NoEntry]
    /\ call = [c \in Callers |-> IdleCall]
    /\ invalidated = 0
    /\ pagePc = "unmounted"
    /\ fetched = <<>>
    /\ allLaunches = <<>>
    /\ displayedLaunches = <<>>
    /\ isLoading = TRUE
    /\ hasMore = TRUE
    /\ currentPage = 1
    /\ initialTimeout = NoTimer
    /\ rotationTimer = NoTimer
    /\ effectN = 0
    /\ lastEvent = "none"
    /\ VoteIdle
    /\ BoardIdle
    /\ AdminIdle
    /\ LifeIdle
    /\ ScrollIdle
    /\ rotationIndex = 0
    /\ inRegular = <<>>
    /\ inBoosted = <<>>
    /\ outList = <<>>
    /\ outRotated = <<>>
    /\ outBack = <<>>
    /\ fnPc = "idle"

\* The clock advances, and the startups and their votes have changed.
StaleTick ==
    /\ Returned
    /\ \E t \in StaleTimes :
           /\ t > now
           /\ now' = t
           /\ store' = versionAt(t)
    /\ UNCHANGED <<build, reader, cache, submissionsCache, call, invalidated>>
    /\ CacheFrame

StaleNext ==
    \/ \E c \in Callers : GetLaunches(c)
    \/ \E c \in Callers : StartupsResolve(c)
    \/ \E c \in Callers : UpvotesResolve(c)
    \/ \E c \in Callers : Return(c)
    \/ StaleTick

SpecStale == StaleInit /\ [][StaleNext]_vars

-----------------------------------------------------------------------------
(* LaunchPage.tsx: lastWeekWinners, fed by getLaunches and fetchLaunches *)

\* One day in milliseconds.  Instants are local time; 1970-01-01, day 0, is
\* a Thursday.
DAY_MS == 24 * 60 * 60 * 1000

\* Date.prototype.getDay(): 0 is Sunday.
getDay(t) == ((t \div DAY_MS) + 4) % 7

\* setHours(0, 0, 0, 0)
startOfDay(t) == (t \div DAY_MS) * DAY_MS

\* lastWeekStart with the 7 days left out of setDate.
lastWeekStart_ThisWeek(t) == startOfDay(t) - getDay(t) * DAY_MS

\* setDate(now.getDate() - now.getDay() - 7); setHours(0, 0, 0, 0)
lastWeekStart(t) == startOfDay(t) - (getDay(t) + 7) * DAY_MS

\* setDate(lastWeekStart.getDate() + 6); setHours(23, 59, 59, 999)
lastWeekEnd(t) == lastWeekStart(t) + 6 * DAY_MS + (DAY_MS - 1)

\* launches.ts: startOfWeek and endOfWeek of the second getLaunches
startOfWeek(t) == startOfDay(t) - getDay(t) * DAY_MS
endOfWeek(t) == startOfWeek(t) + 6 * DAY_MS + (DAY_MS - 1)

\* A document of the startups collection and the Launch built from it.
BoardLaunch(id, type, date, upvotes) ==
    [id |-> id, listingType |-> type, launchDate |-> date, upvotes |-> upvotes]

\* What getLaunches resolves to: every approved startup (first definition),
\* or the premium and boosted ones and those of the current week (second).
getLaunchesResult(version, docs, t) ==
    LET Keep(d) == \/ version = 1
                   \/ d.listingType = "premium"
                   \/ d.listingType = "boosted"
                   \/ (d.launchDate >= startOfWeek(t) /\ d.launchDate <= endOfWeek(t))
    IN  SelectSeq(docs, Keep)

\* allLaunches.filter(launchDate >= lastWeekStart && launchDate <= lastWeekEnd)
lastWeekFilter(all, t) ==
    LET Keep(launch) == /\ launch.launchDate >= lastWeekStart(t)
                        /\ launch.launchDate <= lastWeekEnd(t)
    IN  SelectSeq(all, Keep)

\* Array.prototype.sort((a, b) => b.upvotes - a.upvotes): stable, descending.
RECURSIVE sortByUpvotes(_)
sortByUpvotes(s) ==
    IF Len(s) = 0
    THEN <<>>
    ELSE LET sorted == sortByUpvotes(SubSeq(s, 1, Len(s) - 1))
             x == s[Len(s)]
             before == {k \in 1..Len(sorted) : sorted[k].upvotes >= x.upvotes}
             at == Cardinality(before)
         IN  SubSeq(sorted, 1, at) \o <<x>> \o SubSeq(sorted, at + 1, Len(sorted))

\* sortByUpvotes that leaves the candidates in the order of allLaunches.
sortByUpvotes_Unsorted(s) == s

\* Bound: the number of approved startups in the store.
MaxBoard == 5

\* The current instant: each day of the week that starts on Sunday, day 17,
\* at midnight, at noon and one millisecond before midnight.
BoardNows ==
    {(17 + d) * DAY_MS + o : d \in 0..6, o \in {0, DAY_MS \div 2, DAY_MS - 1}}

\* Launch dates: the ends of last week (days 10 to 16), the milliseconds next
\* to them, and dates inside last week, before it, in this week and after it.
DatePatterns ==
    { << 10 * DAY_MS, 13 * DAY_MS + 5, 17 * DAY_MS - 1, 12 * DAY_MS, 10 * DAY_MS >>,
      << 10 * DAY_MS - 1, 10 * DAY_MS, 17 * DAY_MS - 1, 17 * DAY_MS, 13 * DAY_MS >>,
      << 5 * DAY_MS, 17 * DAY_MS, 24 * DAY_MS, 10 * DAY_MS - 1, 18 * DAY_MS >>,
      << 13 * DAY_MS, 18 * DAY_MS, 16 * DAY_MS, 5 * DAY_MS, 10 * DAY_MS >> }

VotePatterns ==
    { <<0, 1, 2, 3, 4>>, <<2, 2, 1, 2, 0>>, <<1, 3, 3, 0, 2>>, <<0, 0, 0, 0, 0>> }

TypePatterns ==
    { <<"regular", "regular", "regular", "regular", "regular">>,
      <<"regular", "boosted", "premium", "regular", "boosted">> }

BoardDocs(dates, votes, types, n) ==
    [k \in 1..n |-> BoardLaunch(k, types[((k - 1) % 5) + 1],
                                   dates[((k - 1) % 5) + 1],
                                   votes[((k - 1) % 5) + 1])]

\* The page is mounted, the fetch in flight; the memo has run on the empty
\* allLaunches.
BoardInit ==
    /\ now \in BoardNows
    /\ build \in {1, 2}
    /\ startups \in {BoardDocs(d, v, t, n) :
                        d \in DatePatterns, v \in VotePatterns,
                        t \in TypePatterns, n \in 0..MaxBoard}
    /\ lastWeekLaunches = <<>>
    /\ lastWeekWinners = <<>>
    /\ pagePc = "loading"
    /\ fetched = <<>>
    /\ allLaunches = <<>>
    /\ displayedLaunches = <<>>
    /\ isLoading = TRUE
    /\ hasMore = TRUE
    /\ currentPage = 1
    /\ initialTimeout = NoTimer
    /\ rotationTimer = NoTimer
    /\ effectN = 0
    /\ lastEvent = "mount"
    /\ store = 0
    /\ reader = "none"
    /\ cache = [launches |-> NoEntry, upvotes |-> NoEntry]
    /\ submissionsCache = [k \in SubmissionKeys |-> NoEntry]
    /\ call = <<>>
    /\ invalidated = 0
    /\ AdminIdle
    /\ VoteIdle
    /\ rotationIndex = 0
    /\ inRegular = <<>>
    /\ inBoosted = <<>>
    /\ outList = <<>>
    /\ outRotated = <<>>
    /\ outBack = <<>>
    /\ fnPc = "idle"
    /\ LifeIdle
    /\ ScrollIdle

\* getLaunches() resolves.
BoardGetLaunches ==
    /\ pagePc = "loading"
    /\ fetched' = getLaunchesResult(build, startups, now)
    /\ pagePc' = "fetched"
    /\ lastEvent' = "getLaunches"
    /\ UNCHANGED <<now, allLaunches, displayedLaunches, isLoading, hasMore,
                   currentPage, initialTimeout, rotationTimer, effectN>>
    /\ UNCHANGED <<fnVars, voteVars, rotationIndex, cacheVars, boardVars, adminVars>>
    /\ UNCHANGED lifeVars
    /\ UNCHANGED scrollVars

\* The rest of fetchLaunches and the render that follows, in which the memo
\* lastWeekWinners is computed anew from allLaunches.
BoardFetchDone ==
    /\ pagePc = "fetched"
    /\ LET available == availableLaunches(fetched, now)
           candidates == lastWeekFilter(available, now)
       IN  /\ allLaunches' = available
           /\ displayedLaunches' = Slice(available, 0, BATCH_SIZE)
           /\ hasMore' = (Len(available) > BATCH_SIZE)
           /\ isLoading' = FALSE
           /\ lastWeekLaunches' = candidates
           /\ lastWeekWinners' = Slice(sortByUpvotes(candidates), 0, 3)
    /\ pagePc' = "ready"
    /\ lastEvent' = "fetch"
    /\ UNCHANGED <<now, fetched, currentPage, initialTimeout, rotationTimer,
                   effectN, startups>>
    /\ UNCHANGED <<fnVars, voteVars, rotationIndex, cacheVars, adminVars>>
    /\ UNCHANGED lifeVars
    /\ UNCHANGED scrollVars

BoardNext == BoardGetLaunches \/ BoardFetchDone

SpecBoard == BoardInit /\ [][BoardNext]_vars

-----------------------------------------------------------------------------
(* AdminDashboard.tsx: approval and rejection of a submission *)

\* The dashboards open at the same time (two admins, or two tabs of one).
Dashboards == {"d1", "d2"}

ListingTypes == {"regular", "boosted", "premium"}

\* AdminDashboard state after fetchStartups has listed the submission under
\* the status it read; pending is the write or the refresh in flight.
DashState(status) ==
    [card |-> status, selectedStartupId |-> "null",
     selectedListingType |-> "regular", doFollowBacklink |-> TRUE,
     isImmediateLaunch |-> FALSE, isApproveDialogOpen |-> FALSE,
     isReapproveDialogOpen |-> FALSE, pending |-> "none"]

\* approveUpdate that writes the status only.
approveUpdate_StatusOnly(d, listingType, doFollow, immediate) ==
    [d EXCEPT !.status = "approved"]

\* updateDoc(startupRef, { status: 'approved', listingType, doFollowBacklink,
\* scheduledLaunchDate, updatedAt }) on the stored document d.
approveUpdate(d, listingType, doFollow, immediate) ==
    [d EXCEPT !.status = "approved",
              !.assigned = @ \cup {"listingType", "doFollowBacklink",
                                   "scheduledLaunchDate"},
              !.listingType = listingType,
              !.doFollowBacklink = doFollow,
              !.scheduledLaunchDate =
                  IF listingType = "regular" /\ ~immediate
                  THEN "nextSunday"
                  ELSE "now"]

\* updateDoc(startupRef, { status: 'rejected', updatedAt })
rejectUpdate(d) == [d EXCEPT !.status = "rejected"]

\* launches.ts: the Launch getLaunches builds from an approved document.
launchFromDoc(d) ==
    [listingType |-> IF "listingType" \in d.assigned THEN d.listingType
                     ELSE "regular",
     doFollowBacklink |-> TRUE]

\* LaunchListItem.tsx getLinkProps: the rel attribute, "" for none.
getLinkProps(launch) ==
    IF \/ launch.listingType = "premium"
       \/ launch.listingType = "boosted"
       \/ launch.doFollowBacklink
    THEN ""
    ELSE "nofollow"

AdminInit ==
    /\ submission = PendingSubmission
    /\ dash = [d \in Dashboards |-> DashState("pending")]
    /\ PageIdle
    /\ VoteIdle
    /\ CacheIdle
    /\ BoardIdle
    /\ rotationIndex = 0
    /\ inRegular = <<>>
    /\ inBoosted = <<>>
    /\ outList = <<>>
    /\ outRotated = <<>>
    /\ outBack = <<>>
    /\ fnPc = "idle"
    /\ LifeIdle
    /\ ScrollIdle

\* What a dashboard action leaves alone.
AdminFrame ==
    UNCHANGED <<fnVars, pageVars, voteVars, rotationIndex, cacheVars, boardVars,
                lifeVars, scrollVars>>

\* handleApproveClick on a pending card
HandleApproveClick(d) ==
    /\ dash[d].card = "pending"
    /\ dash' = [dash EXCEPT ![d].selectedStartupId = "s1",
                            ![d].isApproveDialogOpen = TRUE]
    /\ UNCHANGED submission
    /\ AdminFrame

\* handleReapproveClick on a rejected card
HandleReapproveClick(d) ==
    /\ dash[d].card = "rejected"
    /\ dash' = [dash EXCEPT ![d].selectedStartupId = "s1",
                            ![d].isReapproveDialogOpen = TRUE]
    /\ UNCHANGED submission
    /\ AdminFrame

DialogOpen(d) == dash[d].isApproveDialogOpen \/ dash[d].isReapproveDialogOpen

\* The radio group, and the two switches of the dialog (the immediate-launch
\* switch is rendered for the regular type only).
DialogInput(d) ==
    /\ DialogOpen(d)
    /\ \/ \E t \in ListingTypes :
              dash' = [dash EXCEPT ![d].selectedListingType = t]
       \/ \E b \in BOOLEAN :
              dash' = [dash EXCEPT ![d].doFollowBacklink = b]
       \/ /\ dash[d].selectedListingType = "regular"
          /\ \E b \in BOOLEAN :
                 dash' = [dash EXCEPT ![d].isImmediateLaunch = b]
    /\ UNCHANGED submission
    /\ AdminFrame

\* The Cancel button, or onOpenChange(false) of the dialog.
DialogClose(d) ==
    /\ DialogOpen(d)
    /\ \/ dash' = [dash EXCEPT ![d].isApproveDialogOpen = FALSE,
                               ![d].isReapproveDialogOpen = FALSE,
                               ![d].selectedStartupId = "null",
                               ![d].selectedListingType = "regular",
                               ![d].isImmediateLaunch = FALSE]
       \/ dash' = [dash EXCEPT ![d].isApproveDialogOpen = FALSE,
                               ![d].isReapproveDialogOpen = FALSE,
                               ![d].isImmediateLaunch = FALSE]
    /\ UNCHANGED submission
    /\ AdminFrame

\* handleApproveConfirm up to the await of updateDoc.
HandleApproveConfirm(d) ==
    /\ DialogOpen(d)
    /\ dash[d].pending = "none"
    /\ dash[d].selectedStartupId # "null"
    /\ dash' = [dash EXCEPT ![d].pending = "approve"]
    /\ UNCHANGED submission
    /\ AdminFrame

\* handleReject up to the await of updateDoc (the Reject button of a pending
\* or an approved card).
HandleReject(d) ==
    /\ dash[d].card \in {"pending", "approved"}
    /\ dash[d].pending = "none"
    /\ dash' = [dash EXCEPT ![d].pending = "reject"]
    /\ UNCHANGED submission
    /\ AdminFrame

\* updateDoc reaches the store.
UpdateWritten(d) ==
    /\ dash[d].pending \in {"approve", "reject"}
    /\ submission' =
           IF dash[d].pending = "approve"
           THEN approveUpdate(submission, dash[d].selectedListingType,
                              dash[d].doFollowBacklink, dash[d].isImmediateLaunch)
           ELSE rejectUpdate(submission)
    /\ dash' = [dash EXCEPT ![d].pending = IF dash[d].pending = "approve"
                                           THEN "approved" ELSE "rejected"]
    /\ AdminFrame

\* updateDoc rejects: the catch block.
UpdateFails(d) ==
    /\ dash[d].pending \in {"approve", "reject"}
    /\ dash' = [dash EXCEPT ![d].pending = "none"]
    /\ UNCHANGED submission
    /\ AdminFrame

\* fetchStartups lists the submission anew, and the rest of the handler: after
\* an approval the dialog is closed and its selection reset.
Refreshed(d) ==
    /\ dash[d].pending \in {"approved", "rejected"}
    /\ dash' = [dash EXCEPT ![d] =
                   IF dash[d].pending = "approved"
                   THEN [@ EXCEPT !.card = submission.status,
                                  !.pending = "none",
                                  !.isApproveDialogOpen = FALSE,
                                  !.isReapproveDialogOpen = FALSE,
                                  !.selectedStartupId = "null",
                                  !.selectedListingType = "regular",
                                  !.isImmediateLaunch = FALSE]
                   ELSE [@ EXCEPT !.card = submission.status,
                                  !.pending = "none"]]
    /\ UNCHANGED submission
    /\ AdminFrame

AdminNext ==
    \/ \E d \in Dashboards : HandleApproveClick(d)
    \/ \E d \in Dashboards : HandleReapproveClick(d)
    \/ \E d \in Dashboards : DialogInput(d)
    \/ \E d \in Dashboards : DialogClose(d)
    \/ \E d \in Dashboards : HandleApproveConfirm(d)
    \/ \E d \in Dashboards : HandleReject(d)
    \/ \E d \in Dashboards : UpdateWritten(d)
    \/ \E d \in Dashboards : UpdateFails(d)
    \/ \E d \in Dashboards : Refreshed(d)

SpecAdmin == AdminInit /\ [][AdminNext]_vars

-----------------------------------------------------------------------------
(* firestore.rules: create, update and delete of /startups/{startupId} *)

\* The callers of the rules: the signed-in users, the admins and a caller
\* who is not signed in.
Principals == Users \cup Admins \cup {NoUser}

\* allow create: if request.auth != null
\*                  && request.resource.data.userId == request.auth.uid
allowCreate(auth, req) == auth # NoUser /\ req.userId = auth

\* allow delete: if isAdmin()
allowDelete(auth) == auth # NoUser /\ isAdmin(auth)

\* What a request on the document leaves alone.
LifeFrame ==
    UNCHANGED <<fnVars, pageVars, voteVars, rotationIndex, cacheVars, boardVars,
                adminVars, scrollVars>>

LifeInit ==
    /\ LifeIdle
    /\ ScrollIdle
    /\ PageIdle
    /\ VoteIdle
    /\ CacheIdle
    /\ BoardIdle
    /\ AdminIdle
    /\ rotationIndex = 0
    /\ inRegular = <<>>
    /\ inBoosted = <<>>
    /\ outList = <<>>
    /\ outRotated = <<>>
    /\ outBack = <<>>
    /\ fnPc = "idle"

\* A principal asks to create the document with any content.
CreateRequest ==
    /\ stored = NoDoc
    /\ \E caller \in Principals, req \in RequestDocs :
           IF allowCreate(caller, req)
           THEN /\ stored' = req
                /\ createdAs' = req
                /\ usersOnly' = ~isAdmin(caller)
           ELSE UNCHANGED lifeVars
    /\ LifeFrame

\* A principal asks for any update of the document.
LifeUpdateRequest ==
    /\ stored # NoDoc
    /\ \E caller \in Principals, req \in RequestDocs :
           IF allowUpdate(caller, stored, req)
           THEN /\ stored' = req
                /\ usersOnly' = (usersOnly /\ ~isAdmin(caller))
                /\ UNCHANGED createdAs
           ELSE UNCHANGED lifeVars
    /\ LifeFrame

\* A principal asks to delete the document.
DeleteRequest ==
    /\ stored # NoDoc
    /\ \E caller \in Principals :
           IF allowDelete(caller)
           THEN /\ stored' = NoDoc
                /\ createdAs' = NoDoc
                /\ usersOnly' = TRUE
           ELSE UNCHANGED lifeVars
    /\ LifeFrame

LifeNext == CreateRequest \/ LifeUpdateRequest \/ DeleteRequest

SpecLifecycle == LifeInit /\ [][LifeNext]_vars

-----------------------------------------------------------------------------
(* LaunchPage.tsx: the IntersectionObserver effect and its callback *)

\* Bound: the intersection callbacks one observer delivers before the effect
\* replaces it.
MaxCallbacks == 2

\* The observer the effect creates after a render: its callback closes over
\* the hasMore and the loadMoreLaunches of that render, and loadMoreLaunches
\* over currentPage, hasMore, isLoading and allLaunches.
ObserverOf(all, page, more, loading) ==
    [connected |-> TRUE, allLaunches |-> all, currentPage |-> page,
     hasMore |-> more, isLoading |-> loading, calls |-> 0]

\* What a step of the scroll leaves alone.
ScrollFrame ==
    UNCHANGED <<fnVars, voteVars, cacheVars, boardVars, adminVars, lifeVars>>

\* The render after a state change and the effect that follows it: the
\* cleanup disconnects the old observer, a new one observes the sentinel.
\* The effect runs when isLoading, hasMore or loadMoreLaunches has changed.
ObserverEffect ==
    /\ pagePc = "ready"
    /\ ~isLoading
    /\ LET next == ObserverOf(allLaunches, currentPage, hasMore, isLoading)
       IN  /\ \/ observer = NoObserver
              \/ [observer EXCEPT !.calls = 0] # next
           /\ observer' = next
    /\ lastEvent' = "effect"
    /\ UNCHANGED <<now, pagePc, fetched, allLaunches, displayedLaunches,
                   isLoading, hasMore, currentPage, rotationIndex,
                   initialTimeout, rotationTimer, effectN>>
    /\ ScrollFrame

\* The callback of the observer with the sentinel intersecting: the
\* loadMoreLaunches it closes over runs; setDisplayedLaunches appends to the
\* current list, setCurrentPage and setHasMore store what the closure
\* computed.  The sentinel is in the document only if hasMore was true in
\* the render the observer belongs to.
Intersect ==
    /\ pagePc = "ready"
    /\ observer # NoObserver
    /\ observer.hasMore
    /\ observer.calls < MaxCallbacks
    /\ LET r == loadMoreLaunches(observer.allLaunches, displayedLaunches,
                                 observer.currentPage, observer.hasMore,
                                 observer.isLoading)
       IN  /\ displayedLaunches' = r.displayedLaunches
           /\ IF r.branch = "batch"
              THEN currentPage' = r.currentPage /\ hasMore' = r.hasMore
              ELSE IF r.branch = "empty"
              THEN hasMore' = FALSE /\ UNCHANGED currentPage
              ELSE UNCHANGED <<currentPage, hasMore>>
           /\ lastEvent' = r.branch
    /\ observer' = [observer EXCEPT !.calls = @ + 1]
    /\ UNCHANGED <<now, pagePc, fetched, allLaunches, isLoading, rotationIndex,
                   initialTimeout, rotationTimer, effectN>>
    /\ ScrollFrame

\* Unmount: the cleanups of the observer effect and of the rotation effect.
ScrollUnmount ==
    /\ pagePc # "unmounted"
    /\ pagePc' = "unmounted"
    /\ observer' = NoObserver
    /\ initialTimeout' = NoTimer
    /\ rotationTimer' = NoTimer
    /\ lastEvent' = "unmount"
    /\ UNCHANGED <<now, fetched, allLaunches, displayedLaunches, isLoading,
                   hasMore, currentPage, rotationIndex, effectN>>
    /\ ScrollFrame

ScrollNext ==
    \/ FetchDone
    \/ ObserverEffect
    \/ Intersect
    \/ ScrollUnmount

SpecScroll == PageInit /\ [][ScrollNext]_vars

-----------------------------------------------------------------------------
(* Properties of the interleaver and of the rotation *)

Range(s) == {s[k] : k \in 1..Len(s)}
Count(s, x) == Cardinality({k \in 1..Len(s) : s[k] = x})
Positions(s, x) == {k \in 1..Len(s) : s[k] = x}
IsBoosted(item) == item.listingType = "boosted"

\* For items x, y that both occur in out: x comes before y in out whenever x
\* comes before y in ref.
KeepsOrderOf(out, ref) ==
    \A i, j \in 1..Len(ref) :
        i < j =>
            \A p \in Positions(out, ref[i]) :
                \A q \in Positions(out, ref[j]) : p < q

\* C1: for every regular sequence of length R >= 0 and boosted sequence of
\* length B >= 0 the interleaver returns exactly R + B items, and every
\* regular item and every boosted item occurs in it exactly once.
C1_ExactlyOnce ==
    fnPc = "interleaved" =>
        /\ Len(outList) = Len(inRegular) + Len(inBoosted)
        /\ \A x \in Range(Ids(inRegular)) \cup Range(Ids(inBoosted)) :
               Count(Ids(outList), x) = 1

\* C2: the output keeps the relative order within each tier: regular items
\* in the order of the rotated regular input, boosted items in the order of
\* the rotated boosted input, the spliced-in ones included.
C2_OrderWithinTier ==
    fnPc = "interleaved" =>
        /\ KeepsOrderOf(Ids(outList),
                        Ids(getRotatedLaunches(inRegular, rotationIndex)))
        /\ KeepsOrderOf(Ids(outList),
                        Ids(getRotatedLaunches(inBoosted, rotationIndex)))

\* C3: for R >= 1 and 1 <= B <= R no two boosted items of the output are
\* adjacent.
C3_NoAdjacentBoosted ==
    (/\ fnPc = "interleaved"
     /\ Len(inRegular) >= 1
     /\ Len(inBoosted) >= 1
     /\ Len(inBoosted) <= Len(inRegular)) =>
        \A k \in 1..(Len(outList) - 1) :
            ~(IsBoosted(outList[k]) /\ IsBoosted(outList[k + 1]))

\* C4: with an empty regular input and at least one boosted listing the
\* output is the boosted listings, all of them and nothing else; with both
\* empty the output is empty.
C4_EmptyRegular ==
    (fnPc = "interleaved" /\ Len(inRegular) = 0) =>
        /\ Len(outList) = Len(inBoosted)
        /\ Range(Ids(outList)) = Range(Ids(inBoosted))

\* C6: rotation by i gives S[i:] ++ S[:i] (the item at position p of the
\* result is the item at position (p + i) mod N of S), and for 0 <= i <= N
\* rotating the result by N - i gives S back.
C6_RotationInvertible ==
    LET N == Len(inRegular)
        i == rotationIndex
    IN  /\ (fnPc \in {"rotated", "back"} /\ i <= N) =>
               /\ Len(outRotated) = N
               /\ \A p \in 0..(N - 1) :
                      outRotated[p + 1].id = inRegular[((p + i) % N) + 1].id
        /\ fnPc = "back" =>
               /\ Ids(outBack) = Ids(inRegular)
               /\ \A p \in 1..N :
                      outBack[p].listingType = inRegular[p].listingType

C6_Witness ==
    /\ fnPc = "back"
    /\ rotationIndex > 0
    /\ rotationIndex < Len(inRegular)
    /\ Ids(outRotated) # Ids(inRegular)

-----------------------------------------------------------------------------
(* Properties of the page *)

\* C5: while the page is mounted with N regular listings, whatever the load
\* instant and however many times the rotation timers have fired, once the
\* callbacks due at the current instant have run rotationIndex equals
\* floor(now / 10 minutes) mod max(1, N).
C5_IndexFollowsClock ==
    (/\ pagePc # "unmounted"
     /\ initialTimeout # now
     /\ rotationTimer # now) =>
        rotationIndex =
            (now \div ROTATION_INTERVAL) % Max(1, Len(regularLaunches(allLaunches)))

\* C7: when hasMore has become false displayedLaunches holds every item of
\* allLaunches exactly once and in the original order (until then it is a
\* prefix of it), and a call of loadMoreLaunches made while hasMore is false
\* changes neither displayedLaunches, currentPage nor hasMore.
C7_Pagination ==
    /\ [](pagePc = "ready" =>
             /\ displayedLaunches = Slice(allLaunches, 0, Len(displayedLaunches))
             /\ ~hasMore => displayedLaunches = allLaunches)
    /\ [][(/\ pagePc = "ready"
           /\ ~hasMore
           /\ lastEvent' \in {"return", "batch", "empty"}) =>
              UNCHANGED <<displayedLaunches, currentPage, hasMore>>]_vars

\* Three batches have been loaded, the list is exhausted and loadMoreLaunches
\* has been called once more.
C7_Witness ==
    /\ pagePc = "ready"
    /\ lastEvent = "return"
    /\ ~hasMore
    /\ currentPage = 3
    /\ Len(allLaunches) > 2 * BATCH_SIZE
    /\ displayedLaunches = allLaunches

-----------------------------------------------------------------------------
(* Properties of the update rule *)

IsToggleDelta(caller, before, after) ==
    \/ /\ caller \notin before.upvotedBy
       /\ after.upvotedBy = before.upvotedBy \cup {caller}
       /\ after.upvotes = before.upvotes + 1
    \/ /\ caller \in before.upvotedBy
       /\ after.upvotedBy = before.upvotedBy \ {caller}
       /\ after.upvotes = before.upvotes - 1

\* C9: an update accepted from an authenticated user who is neither an admin
\* nor the owner changes only upvotes and upvotedBy and is exactly one toggle
\* delta of the caller; hence, from a document with upvotes = |upvotedBy|,
\* upvotes = |upvotedBy| and upvotes >= 0 hold after any sequence of such
\* updates.
C9_ExactToggleDelta ==
    /\ lastUpdate.caller # NoUser =>
           /\ doc.userId = lastUpdate.before.userId
           /\ doc.status = lastUpdate.before.status
           /\ IsToggleDelta(lastUpdate.caller, lastUpdate.before, doc)
    /\ onlyVoters =>
           /\ doc.upvotes = Cardinality(doc.upvotedBy)
           /\ doc.upvotes >= 0

-----------------------------------------------------------------------------
(* Properties of the upvote toggle *)

\* C8: after two toggles in a row of the same signed-in user, both accepted
\* by the store and with no other write in between, the counter and the
\* user's membership in upvotedBy, and the counter and the hasUpvoted flag
\* the item shows, are what they were before the first of the two.
C8_RoundTrip ==
    (streak.user # NoUser /\ streak.count = 2) =>
        /\ doc.upvotes = streak.docUpvotes
        /\ (streak.user \in doc.upvotedBy) = streak.docMember
        /\ itemState[streak.user].upvotes = streak.uiUpvotes
        /\ itemState[streak.user].hasUpvoted = streak.uiHasUpvoted
        /\ ~itemState[streak.user].isUpvoting

\* Two toggles in a row have settled, the first of which changed the
\* document and the item.
C8_Witness ==
    /\ streak.user # NoUser
    /\ streak.count = 2
    /\ flow[streak.user] = "idle"
    /\ streak.docMember
    /\ streak.uiHasUpvoted
    /\ streak.docUpvotes = 2

\* C10: when two different users toggle their upvote on the same listing
\* concurrently both toggles succeed (the store denies neither), and the
\* counter is the original counter plus the number of users who joined
\* upvotedBy minus the number who left it.
C10_ConcurrentToggles ==
    overlapped =>
        /\ \A c \in Users : flow[c] # "denied"
        /\ doc.upvotes = orig.upvotes
                         + Cardinality(doc.upvotedBy \ orig.upvotedBy)
                         - Cardinality(orig.upvotedBy \ doc.upvotedBy)

\* C11: an upvote attempt of a caller who is not signed in never reaches
\* toggleUpvote (the caller's flow never awaits the store), leaves the shown
\* counter and the hasUpvoted flag of the item as they were, leaves the
\* document alone, and sends the caller to the sign-in route.
C11_UnauthenticatedRejected ==
    /\ [](/\ flow[NoUser] = "idle"
          /\ itemState[NoUser] = initialItem(launchProp, NoUser)
          /\ route[NoUser] \in {"/", "/login"})
    /\ [][route'[NoUser] # route[NoUser] =>
              /\ route'[NoUser] = "/login"
              /\ UNCHANGED <<doc, flow, itemState>>]_vars

\* The caller who is not signed in has clicked on a listing that carries
\* votes, while a signed-in user's toggle is in flight.
C11_Witness ==
    /\ route[NoUser] = "/login"
    /\ doc.upvotes > 0
    /\ itemState[NoUser].upvotes > 0
    /\ \E c \in Users : flow[c] = "awaiting"

-----------------------------------------------------------------------------
(* Properties of the read-through caches *)

\* The call of c found an entry for its key that was younger than 5 minutes.
FoundFresh(c) ==
    /\ call[c].fn # "none"
    /\ call[c].cached.present
    /\ call[c].now - call[c].cached.timestamp < 5 * 60 * 1000

\* The entry the cache holds for the key of the call of c.
EntryOf(c) ==
    IF call[c].fn = "getLaunches" THEN cache.launches
    ELSE submissionsCache[call[c].key]

\* C12: a cached read (getLaunches, or a fetch of useSubmissions for a user
\* and status) made while an entry for its key exists and is younger than
\* 5 minutes returns the data of that entry and issues no store query.
C12_FreshEntryNoQuery ==
    \A c \in Callers :
        FoundFresh(c) =>
            /\ call[c].pc = "done"
            /\ call[c].queries = 0
            /\ ~call[c].failed
            /\ call[c].result = call[c].cached.data
            /\ EntryOf(c) = call[c].cached

\* getLaunches has answered from an entry that is one millisecond short of
\* 5 minutes old, although the store has changed since it was fetched.
C12_Witness ==
    \E c \in Callers :
        /\ FoundFresh(c)
        /\ call[c].fn = "getLaunches"
        /\ call[c].pc = "done"
        /\ call[c].now - call[c].cached.timestamp = CACHE_DURATION - 1
        /\ call[c].result # <<>>
        /\ call[c].result[1].startup # store

\* C13: a cached read made when no entry exists or the entry is 5 minutes
\* old or older issues exactly one store query and, when the query succeeds,
\* overwrites the entry with the fetched data and returns that data.
C13_MissQueriesOnce ==
    \A c \in Callers :
        (/\ call[c].fn # "none"
         /\ ~FoundFresh(c)
         /\ ~call[c].failed) =>
            /\ call[c].queries = 1
            /\ call[c].pc = "done" =>
                   /\ EntryOf(c) = Entry(call[c].result, call[c].now)
                   /\ call[c].result =
                          IF call[c].fn = "getLaunches"
                          THEN launchesOf(call[c].part, call[c].part)
                          ELSE submissionsOf(call[c].key, call[c].part)

\* C14: when the store query of a cached read fails, the read returns the
\* data of the entry of its key if there is one, expired or not, and
\* propagates the failure to its caller if there is none.
C14_FailureFallsBack ==
    \A c \in Callers :
        (call[c].pc = "done" /\ call[c].failed /\ ~call[c].cleared) =>
            LET entry == IF call[c].fn = "getLaunches"
                         THEN cache.launches
                         ELSE call[c].cached
            IN  IF entry.present
                THEN call[c].result = entry.data /\ ~FoundFresh(c)
                ELSE call[c].error

-----------------------------------------------------------------------------
(* Properties of the tiers of the page *)

\* C15: every premium listing is rendered in the premium section, in fetch
\* order whatever the rotation index, and no premium listing occurs in
\* displayedLaunches or in the rotated and interleaved list built from it,
\* however many batches are loaded.
C15_PremiumBypasses ==
    pagePc = "ready" =>
        /\ \A k \in 1..Len(fetched) :
               fetched[k].listingType = "premium" =>
                   Count(Ids(premiumSection), fetched[k].id) = 1
        /\ \A i, j \in 1..Len(premiumSection) :
               i < j => premiumSection[i].id < premiumSection[j].id
        /\ \A k \in 1..Len(displayedLaunches) :
               displayedLaunches[k].listingType # "premium"
        /\ \A k \in 1..Len(renderedList) :
               renderedList[k].listingType # "premium"

Eligible(launch, t) ==
    \/ launch.listingType \in {"premium", "boosted"}
    \/ launch.launchDate <= t

\* C16: right after the fetch allLaunches holds exactly the fetched listings
\* that are premium, boosted, or dated at or before the instant of the fetch,
\* in fetch order; and no regular listing dated in the future is displayed.
C16_EligibleListings ==
    pagePc = "ready" =>
        /\ lastEvent = "fetch" =>
               /\ \A k \in 1..Len(fetched) :
                      Count(allLaunches, fetched[k]) =
                          IF Eligible(fetched[k], now) THEN 1 ELSE 0
               /\ Range(allLaunches) \subseteq Range(fetched)
               /\ \A i, j \in 1..Len(allLaunches) :
                      i < j => allLaunches[i].id < allLaunches[j].id
        /\ \A k \in 1..Len(displayedLaunches) :
               displayedLaunches[k].listingType = "regular" =>
                   displayedLaunches[k].launchDate <= now
        /\ \A k \in 1..Len(renderedList) :
               renderedList[k].listingType = "regular" =>
                   renderedList[k].launchDate <= now

\* The fetch has just resolved in the first window: a regular listing dated
\* in the next window was dropped, a boosted one with that date was kept.
C16_Witness ==
    /\ pagePc = "ready"
    /\ lastEvent = "fetch"
    /\ now < ROTATION_INTERVAL
    /\ \E k \in 1..Len(fetched) :
           /\ fetched[k].listingType = "regular"
           /\ fetched[k].launchDate > now
           /\ Count(allLaunches, fetched[k]) = 0
    /\ \E k \in 1..Len(allLaunches) :
           /\ allLaunches[k].listingType = "boosted"
           /\ allLaunches[k].launchDate > now
    /\ Len(allLaunches) > BATCH_SIZE

-----------------------------------------------------------------------------
(* Properties of the leaderboard *)

\* The number of the Sunday-aligned calendar week an instant lies in.
SundayWeek(t) == ((t \div DAY_MS) + 4) \div 7

InLastWeek(launch) == SundayWeek(launch.launchDate) = SundayWeek(now) - 1

\* C17: on every day of the week the candidates of the leaderboard are
\* exactly the listings of allLaunches dated in the Sunday-aligned week just
\* before the current one, from its Sunday 00:00:00.000 to its Saturday
\* 23:59:59.999, in the order of allLaunches; listings of the current week
\* and of earlier weeks are never candidates.
C17_LastWeekWindow ==
    pagePc = "ready" =>
        /\ \A k \in 1..Len(allLaunches) :
               Count(lastWeekLaunches, allLaunches[k]) =
                   IF InLastWeek(allLaunches[k]) THEN 1 ELSE 0
        /\ Range(lastWeekLaunches) \subseteq Range(allLaunches)
        /\ Range(lastWeekWinners) \subseteq Range(lastWeekLaunches)
        /\ \A i, j \in 1..Len(lastWeekLaunches) :
               i < j => lastWeekLaunches[i].id < lastWeekLaunches[j].id

\* On a Saturday one millisecond before midnight: listings dated on the
\* first and on the last millisecond of last week are candidates, those
\* dated one millisecond before and after it are not.
C17_Witness ==
    /\ pagePc = "ready"
    /\ getDay(now) = 6
    /\ now % DAY_MS = DAY_MS - 1
    /\ \E a, b \in Range(lastWeekLaunches) :
           /\ a.launchDate = lastWeekStart(now)
           /\ b.launchDate = lastWeekStart(now) + 7 * DAY_MS - 1
    /\ \E a, b \in Range(allLaunches) \ Range(lastWeekLaunches) :
           /\ a.launchDate = lastWeekStart(now) - 1
           /\ b.launchDate = lastWeekStart(now) + 7 * DAY_MS

\* C18: with k approved listings launched in last week's window the
\* leaderboard holds min(3, k) of them, in descending order of upvotes, and
\* no listing left out has more upvotes than one that is in; computing it
\* leaves allLaunches in fetch order.
C18_TopThree ==
    pagePc = "ready" =>
        LET approved == {startups[k] : k \in 1..Len(startups)}
            lastWeek == {d \in approved : InLastWeek(d)}
        IN  /\ Len(lastWeekWinners) = Min(3, Cardinality(lastWeek))
            /\ Range(lastWeekWinners) \subseteq lastWeek
            /\ Cardinality(Range(lastWeekWinners)) = Len(lastWeekWinners)
            /\ \A i, j \in 1..Len(lastWeekWinners) :
                   i < j => lastWeekWinners[i].upvotes >= lastWeekWinners[j].upvotes
            /\ \A d \in lastWeek \ Range(lastWeekWinners) :
                   \A w \in Range(lastWeekWinners) : d.upvotes <= w.upvotes
            /\ \A i, j \in 1..Len(allLaunches) :
                   i < j => allLaunches[i].id < allLaunches[j].id

-----------------------------------------------------------------------------
(* Properties of the admin dashboard and of the backlinks *)

\* C19: the doFollowBacklink the admin assigned at approval governs the
\* link: the outbound link of an approved listing carries rel = nofollow
\* exactly when the listing is regular and its stored doFollowBacklink is
\* false; links of boosted and premium listings never carry it.
C19_NofollowFollowsApproval ==
    submission.status = "approved" =>
        (getLinkProps(launchFromDoc(submission)) = "nofollow")
            <=> (submission.listingType = "regular" /\ ~submission.doFollowBacklink)

AllowedMoves ==
    { <<"pending", "approved">>, <<"pending", "rejected">>,
      <<"rejected", "approved">>, <<"approved", "rejected">> }

\* C20: after any sequence of approve, reject and re-approve actions of the
\* dashboards an approved submission has listingType, doFollowBacklink and
\* scheduledLaunchDate assigned, and the status only moves from pending to
\* approved or rejected, from rejected to approved and from approved to
\* rejected.
C20_ApprovedIsComplete ==
    /\ [](submission.status = "approved" =>
              /\ submission.assigned = {"listingType", "doFollowBacklink",
                                        "scheduledLaunchDate"}
              /\ submission.listingType \in ListingTypes
              /\ submission.scheduledLaunchDate \in {"nextSunday", "now"})
    /\ [][submission'.status # submission.status =>
              <<submission.status, submission'.status>> \in AllowedMoves]_vars

\* A rejected submission has just been approved again, as a boosted listing
\* without doFollow, from a dashboard whose card still shows it as rejected,
\* while the other dashboard has a rejection of it in flight.
C20_Witness ==
    \E d, e \in Dashboards :
        /\ submission.status = "approved"
        /\ submission.listingType = "boosted"
        /\ ~submission.doFollowBacklink
        /\ dash[d].pending = "approved"
        /\ dash[d].card = "rejected"
        /\ dash[e].pending = "reject"

-----------------------------------------------------------------------------
(* Properties of the life of a submission *)

\* C21: under the rules no sequence of create and update requests of
\* principals who are not admins leaves a startups document with status
\* approved, or with a userId other than the one it was created with.
C21_OnlyAdminsApprove ==
    (stored # NoDoc /\ usersOnly) =>
        /\ stored.status # "approved"
        /\ stored.userId = createdAs.userId

-----------------------------------------------------------------------------
(* Properties of a failed toggle *)

\* C22: when the store update of an upvote toggle fails (the store cannot
\* be reached or the rules deny the update), no step of the toggle, from the
\* click to the end of the handler, changes the counter or the hasUpvoted
\* flag the item shows, so both are what they were before the click, and the
\* handler ends with isUpvoting reset: an item with no toggle in flight is
\* never left with isUpvoting set.
C22_FailedToggleRestores ==
    /\ [](\A c \in Users : flow[c] = "idle" => ~itemState[c].isUpvoting)
    /\ [][\A c \in Users :
              /\ flow[c] # "resolved" =>
                     /\ itemState'[c].upvotes = itemState[c].upvotes
                     /\ itemState'[c].hasUpvoted = itemState[c].hasUpvoted
              /\ (flow[c] \in {"failed", "denied"} /\ flow'[c] = "idle") =>
                     ~itemState'[c].isUpvoting]_vars

\* A toggle of a user whose item shows a vote has failed and its handler has
\* ended with the error toast; the item still shows the vote.
C22_Witness ==
    \E c \in Users :
        /\ toast[c] = "Error"
        /\ flow[c] = "idle"
        /\ ~itemState[c].isUpvoting
        /\ itemState[c].hasUpvoted
        /\ itemState[c].upvotes > 0

-----------------------------------------------------------------------------
(* Properties of the infinite scroll *)

\* C23: whatever the order of intersection callbacks and renders, on the
\* loaded page displayedLaunches is the prefix of allLaunches of length
\* min(currentPage * 10, |allLaunches|) (so no batch is appended twice) and
\* hasMore is true exactly when currentPage * 10 < |allLaunches|.
C23_OneBatchPerPage ==
    pagePc = "ready" =>
        /\ displayedLaunches =
               Slice(allLaunches, 0, Min(currentPage * BATCH_SIZE, Len(allLaunches)))
        /\ hasMore = (currentPage * BATCH_SIZE < Len(allLaunches))

-----------------------------------------------------------------------------
(* Properties of overlapping and invalidated cached reads *)

\* The call of c has tested the entry of its key, found none that is valid,
\* and has not come to its write of the entry yet.
BetweenReadAndWrite(c) == call[c].pc \in {"startups", "upvotes", "query"}

\* C24: the cache accesses of one client for one key are sequenced: never
\* are two calls for the same key both between their read of the entry
\* (found missing or expired) and their write of it, each with its own store
\* query under way.
C24_SameKeySequenced ==
    \A c \in Callers : \A o \in Callers \ {c} :
        ~(/\ BetweenReadAndWrite(c)
          /\ BetweenReadAndWrite(o)
          /\ call[c].key = call[o].key)

\* The version of the store a list of launches or of submissions was
\* built from (no document is approved in version 0).
versionOf(data) == IF data = <<>> THEN 0 ELSE data[1].startup

\* C25: after clearLaunchesCache() or clearSubmissionsCache() a read that
\* finds no entry queries the store, and no read that returns afterwards
\* (one that was in flight when the cache was cleared included) returns data
\* older than the store was at the invalidation, that is, data fetched
\* before it.
C25_NothingOlderThanClear ==
    \A c \in Callers :
        /\ (call[c].fn # "none" /\ ~call[c].cached.present) =>
               call[c].queries >= 1
        /\ (call[c].pc = "done" /\ ~call[c].failed) =>
               versionOf(call[c].result) >= invalidated

-----------------------------------------------------------------------------
(* Properties of the age of cached data *)

\* C26: with no store failure, every list getLaunches returns was read from
\* the store less than 5 minutes before the call that returns it: the
\* startups it was built from, and the upvotes and upvotedBy of its listings
\* (which may come from the upvote cache).
C26_StalenessWithinTTL ==
    \A c \in Callers :
        (/\ call[c].fn = "getLaunches"
         /\ call[c].pc = "done"
         /\ ~call[c].failed
         /\ call[c].result # <<>>) =>
            /\ call[c].now - readAt(call[c].result[1].startup) < CACHE_DURATION
            /\ call[c].now - readAt(call[c].result[1].upvotes) < CACHE_DURATION

-----------------------------------------------------------------------------
(* Properties of the rotation timers *)

\* C27: on a mounted page at most one rotation timer is pending, the
\* initial timeout or the interval (the effect run after a change of the
\* number of regular listings starts from no timer), and none is pending
\* after unmount.  A timer callback that advances the index runs on the
\* loaded page at the start of a window and leaves one timer, due one window
\* later, and on the loaded page only a timer callback or the unmount
\* touches the timers: the index advances at most once per window.
C27_OneRotationTimer ==
    /\ [](~(initialTimeout # NoTimer /\ rotationTimer # NoTimer))
    /\ [](pagePc = "unmounted" =>
             (initialTimeout = NoTimer /\ rotationTimer = NoTimer))
    /\ [][(lastEvent' \in {"timeout", "interval"} /\ rotationIndex' # rotationIndex) =>
              /\ pagePc = "ready"
              /\ now % ROTATION_INTERVAL = 0
              /\ initialTimeout' = NoTimer
              /\ rotationTimer' = now + ROTATION_INTERVAL]_vars
    /\ [][(pagePc = "ready" /\ <<initialTimeout, rotationTimer>>' #
                                  <<initialTimeout, rotationTimer>>) =>
              lastEvent' \in {"timeout", "interval", "unmount"}]_vars

\* A page with regular listings has been unmounted after its initial timeout
\* had run and started the interval.
C27_Witness ==
    /\ pagePc = "unmounted"
    /\ lastEvent = "unmount"
    /\ effectN > 1
    /\ now > ROTATION_INTERVAL
    /\ rotationIndex > 0

-----------------------------------------------------------------------------
(* Properties of the rendered list under rotation *)

\* The list rendered when the rotation index is i.
renderedAt(i) ==
    insertBoostedLaunches(displayedLaunches, boostedLaunches(allLaunches), i)

\* C28: with every batch loaded, each regular listing is the first item of
\* the rendered list for at least one of the N values the rotation index
\* runs through in N consecutive windows (N the number of regular listings),
\* whatever premium and boosted listings are present.
C28_EqualExposure ==
    (pagePc = "ready" /\ ~hasMore /\ displayedLaunches = allLaunches) =>
        LET regular == regularLaunches(allLaunches)
            N == Len(regular)
        IN  \A k \in 1..N : \E i \in 0..(N - 1) :
                /\ renderedAt(i) # <<>>
                /\ renderedAt(i)[1].id = regular[k].id

\* C29: in the rendered list every listing id occurs at most once and the
\* uniqueKey values of the items are pairwise distinct, for every fetched
\* list, rotation index and number of loaded batches.
C29_DistinctIdsAndKeys ==
    pagePc = "ready" =>
        \A j \in 1..Len(renderedList) : \A k \in 1..Len(renderedList) :
            j # k => /\ renderedList[j].id # renderedList[k].id
                     /\ renderedList[j].uniqueKey # renderedList[k].uniqueKey

-----------------------------------------------------------------------------
(* Properties of the list items across rotations *)

\* C30: for a signed-in user with no toggle in flight, whatever toggles and
\* rotation-index changes came before, the item shows hasUpvoted exactly
\* when the user is in upvotedBy of the stored document, and, when no other
\* user's vote has changed since the items were first mounted, the counter
\* of the stored document.
C30_ItemAgreesWithStore ==
    \A c \in Users :
        flow[c] = "idle" =>
            /\ itemState[c].hasUpvoted = (c \in doc.upvotedBy)
            /\ (doc.upvotedBy \ {c} = orig.upvotedBy \ {c}) =>
                   itemState[c].upvotes = doc.upvotes

====
